---- MODULE Spec2Model ----
(***************************************************************************)
(* Emprestimos AGT: the store of App (clients, loans, expenses), its       *)
(* session and login, the loan form of the Loans view, the summary views   *)
(* and the loan calculation engine calculateLoanDetails.                   *)
(*                                                                         *)
(* Modelling conventions                                                   *)
(*  - A JavaScript number is an exact rational <<numerator, denominator>>  *)
(*    in lowest terms with a positive denominator (binary floating-point   *)
(*    rounding is not modelled).                                           *)
(*  - An instant (a JavaScript Date) is a whole number of hours since      *)
(*    1970-01-01T00:00Z.  The evaluator's time zone is a fixed offset tz   *)
(*    in hours, chosen when the page is loaded.                            *)
(*  - A date string 'yyyy-MM-dd' is the tuple <<y, m, d>>; an ISO instant  *)
(*    string 'yyyy-MM-ddTHH:00:00.000Z' is the tuple <<y, m, d, h>> of its *)
(*    UTC fields; the empty string is <<>>.  Strings of one shape are      *)
(*    compared field by field, which is the character order of the         *)
(*    zero-padded text.                                                    *)
(*  - generateId is modelled as returning an id never returned before.     *)
(***************************************************************************)
EXTENDS Integers, Sequences, FiniteSets, TLC

VARIABLES
    clients,          \* App: useStickyState 'app-clients'
    loans,            \* App: useStickyState 'app-loans'
    calculatedLoans,  \* Loans view: loans.map(l => calculateLoanDetails(l, clients)) of the last render
    renderedDay,      \* local day number of 'new Date()' at that render
    now,              \* the system clock, in hours since the epoch
    tz,               \* the evaluator's time-zone offset, in hours east of UTC
    nextId,           \* number of ids generateId has handed out
    expenses,         \* App: useStickyState 'app-expenses'
    view,             \* what the mounted summary view (Dashboard or Profits) computed at its last render
    viewedAt,         \* the clock at that render
    lastCall,         \* the last handler called with a record, and that record
    simulation,       \* Loans view: getSimulation() of the render in which the form was submitted
    isAuthenticated,  \* App: useState(false)
    currentUser,      \* App: useState('')
    isAuthChecking,   \* App: useState(true)
    activeTab,        \* App: useState('dashboard')
    sessionStorage,   \* the item 'agt_user' of window.sessionStorage, Null when absent
    login,            \* Login: username, password and error of the mounted login form
    screen            \* what App returned at its last render

\* the session, the navigation and the login form
sessionVars ==
    <<isAuthenticated, currentUser, isAuthChecking, activeTab, sessionStorage,
      login, screen>>

vars == <<clients, loans, calculatedLoans, renderedDay, now, tz, nextId,
          expenses, view, viewedAt, lastCall, simulation, sessionVars>>

-----------------------------------------------------------------------------
(* JavaScript values *)

Undefined == <<"undefined">>
EmptyStr == <<>>

\* JavaScript truthiness of an optional string (loan.paidAt, formData.dueDate, ...)
Truthy(s) == s # Undefined /\ s # EmptyStr

Abs(x) == IF x < 0 THEN -x ELSE x

RECURSIVE GCD(_, _)
GCD(a, b) == IF b = 0 THEN a ELSE GCD(b, a % b)

\* the rational n/d (d # 0) in lowest terms with a positive denominator
Rat(n, d) ==
    LET s == IF d < 0 THEN -1 ELSE 1
        g == GCD(Abs(n), Abs(d))
    IN  <<(s * n) \div g, (s * d) \div g>>

Num(n) == <<n, 1>>
RAdd(a, b) == Rat(a[1] * b[2] + b[1] * a[2], a[2] * b[2])
RSub(a, b) == Rat(a[1] * b[2] - b[1] * a[2], a[2] * b[2])
RMul(a, b) == Rat(a[1] * b[1], a[2] * b[2])
RDiv(a, b) == Rat(a[1] * b[2], a[2] * b[1])
RGt(a, b) == a[1] * b[2] > b[1] * a[2]

-----------------------------------------------------------------------------
(* Calendar: the proleptic Gregorian calendar of the JavaScript Date *)

HoursPerDay == 24

\* day number (days since 1970-01-01) of the calendar date <<y, m, d>>
DaysFromCivil(ymd) ==
    LET y   == IF ymd[2] <= 2 THEN ymd[1] - 1 ELSE ymd[1]
        era == y \div 400
        yoe == y - era * 400
        mp  == IF ymd[2] > 2 THEN ymd[2] - 3 ELSE ymd[2] + 9
        doy == (153 * mp + 2) \div 5 + ymd[3] - 1
        doe == yoe * 365 + yoe \div 4 - yoe \div 100 + doy
    IN  era * 146097 + doe - 719468

\* calendar date <<y, m, d>> of a day number
CivilFromDays(n) ==
    LET z   == n + 719468
        era == z \div 146097
        doe == z - era * 146097
        yoe == (doe - doe \div 1460 + doe \div 36524 - doe \div 146096) \div 365
        doy == doe - (365 * yoe + yoe \div 4 - yoe \div 100)
        mp  == (5 * doy + 2) \div 153
        d   == doy - (153 * mp + 2) \div 5 + 1
        m   == IF mp < 10 THEN mp + 3 ELSE mp - 9
        y   == yoe + era * 400
    IN  <<IF m <= 2 THEN y + 1 ELSE y, m, d>>

\* local calendar fields of an instant: day number and hour of day
LocalDay(t) == (t + tz) \div HoursPerDay
LocalHour(t) == (t + tz) % HoursPerDay

\* new Date(y, m - 1, d): local midnight of a calendar date
LocalMidnight(ymd) == DaysFromCivil(ymd) * HoursPerDay - tz

\* variant: the dates are compared as displayed, 'dd/MM/yyyy'
StrGtDayFirst(a, b) ==
    \/ a[3] > b[3]
    \/ a[3] = b[3] /\ a[2] > b[2]
    \/ a[3] = b[3] /\ a[2] = b[2] /\ a[1] > b[1]

\* a 'yyyy-MM-dd' or ISO string a > b in character order
StrGt(a, b) ==
    \E i \in 1..3 : a[i] > b[i] /\ \A j \in 1..(i - 1) : a[j] = b[j]

\* Date.prototype.toISOString: the UTC fields of an instant
toISOString(t) ==
    LET ymd == CivilFromDays(t \div HoursPerDay)
    IN  <<ymd[1], ymd[2], ymd[3], t % HoursPerDay>>

\* variant: a date-only string is read as midnight UTC, as new Date(s) does
parseISOAsUTC(s) ==
    IF Len(s) = 3
    THEN DaysFromCivil(s) * HoursPerDay
    ELSE DaysFromCivil(<<s[1], s[2], s[3]>>) * HoursPerDay + s[4]

\* date-fns parseISO: a date-only string is local midnight, a string with a
\* 'Z' zone is the instant it names
parseISO(s) ==
    IF Len(s) = 3
    THEN LocalMidnight(s)
    ELSE DaysFromCivil(<<s[1], s[2], s[3]>>) * HoursPerDay + s[4]

\* date-fns format(date, 'yyyy-MM-dd'): the local calendar date of an instant
format(t) == CivilFromDays(LocalDay(t))

\* date-fns compareLocalAsc: sign of left - right by local calendar fields
compareLocalAsc(left, right) ==
    LET diff == IF LocalDay(left) # LocalDay(right)
                THEN LocalDay(left) - LocalDay(right)
                ELSE LocalHour(left) - LocalHour(right)
    IN  IF diff < 0 THEN -1 ELSE IF diff > 0 THEN 1 ELSE 0

\* date-fns differenceInCalendarDays
differenceInCalendarDays(left, right) == LocalDay(left) - LocalDay(right)

\* date-fns differenceInDays: full days between two instants, truncated
\* towards zero
differenceInDays(left, right) ==
    LET sign       == compareLocalAsc(left, right)
        difference == Abs(differenceInCalendarDays(left, right))
        moved      == left - sign * difference * HoursPerDay
        isLastDayNotFull == IF compareLocalAsc(moved, right) = -sign THEN 1 ELSE 0
    IN  sign * (difference - isLastDayNotFull)

Max(a, b) == IF a > b THEN a ELSE b

\* number of days of month m (1..12) of year y
DaysInMonth(y, m) ==
    LET next == IF m = 12 THEN <<y + 1, 1, 1>> ELSE <<y, m + 1, 1>>
    IN  DaysFromCivil(next) - DaysFromCivil(<<y, m, 1>>)

\* variant: Date.prototype.setMonth, where a day past the end of the month
\* runs over into the next month
addMonthsOverflow(t, n) ==
    LET ymd    == CivilFromDays(LocalDay(t))
        months == ymd[1] * 12 + (ymd[2] - 1) + n
    IN  LocalMidnight(CivilFromDays(
            DaysFromCivil(<<months \div 12, (months % 12) + 1, 1>>) + ymd[3] - 1))
        + LocalHour(t)

\* date-fns addMonths: the same local day of month and time of day n months
\* later, or the last day of that month when it is shorter
addMonths(t, n) ==
    LET ymd    == CivilFromDays(LocalDay(t))
        months == ymd[1] * 12 + (ymd[2] - 1) + n
        y      == months \div 12
        m      == (months % 12) + 1
        dim    == DaysInMonth(y, m)
        d      == IF ymd[3] >= dim THEN dim ELSE ymd[3]
    IN  LocalMidnight(<<y, m, d>>) + LocalHour(t)

-----------------------------------------------------------------------------
(* Loan calculation engine (utils) *)

\* clients.find(c => c.id === id): the first client with that id, if any
FindClient(cs, id) ==
    LET hits == {i \in DOMAIN cs : cs[i].id = id}
    IN  IF hits = {} THEN <<>>
        ELSE <<cs[CHOOSE i \in hits : \A j \in hits : i <= j]>>

\* client?.name || 'Cliente Desconhecido'
ClientNameOf(found) ==
    IF found # <<>> /\ found[1].name # "" THEN found[1].name
    ELSE "Cliente Desconhecido"

\* variant: every loan is charged a percentage, the interest type is ignored
InitialInterestOfPercentOnly(loan) ==
    RMul(loan.amount, RDiv(loan.interestRate, Num(100)))

\* 1. initial interest: a flat value, or a percentage of the principal
InitialInterestOf(loan) ==
    LET interestType == IF loan.interestType = "" THEN "PERCENTAGE"
                        ELSE loan.interestType
    IN  IF interestType = "FIXED_VALUE"
        THEN loan.interestRate
        ELSE RMul(loan.amount, RDiv(loan.interestRate, Num(100)))

\* variant: today taken from the UTC fields, new Date().toISOString().slice(0, 10)
TodayStrUTC == CivilFromDays(now \div HoursPerDay)

\* format(new Date(), 'yyyy-MM-dd')
TodayStr == format(now)

\* a >= b in character order
StrGe(a, b) == a = b \/ StrGt(a, b)

\* variant: a loan is overdue from its due date on (>= for >)
OverdueOfInclusive(loan, todayStr) ==
    IF loan.status = "PAID" /\ Truthy(loan.paidAt)
    THEN LET paidDateStr == format(parseISO(loan.paidAt))
         IN  [isOverdue |-> StrGe(paidDateStr, loan.dueDate),
              referenceDateStr |-> paidDateStr]
    ELSE [isOverdue |-> loan.status # "PAID" /\ StrGe(todayStr, loan.dueDate),
          referenceDateStr |-> todayStr]

\* variant: a paid loan is judged against today, like an active one
OverdueOfLive(loan, todayStr) ==
    [isOverdue |-> StrGt(todayStr, loan.dueDate), referenceDateStr |-> todayStr]

\* variant: the paid date is cut from the stored string, paidAt.slice(0, 10)
OverdueOfPaidSliced(loan, todayStr) ==
    IF loan.status = "PAID" /\ Truthy(loan.paidAt)
    THEN LET paidDateStr == <<loan.paidAt[1], loan.paidAt[2], loan.paidAt[3]>>
         IN  [isOverdue |-> StrGt(paidDateStr, loan.dueDate),
              referenceDateStr |-> paidDateStr]
    ELSE [isOverdue |-> loan.status # "PAID" /\ StrGt(todayStr, loan.dueDate),
          referenceDateStr |-> todayStr]

\* 2. overdue flag and reference date: the paid date of a paid loan, else today
OverdueOf(loan, todayStr) ==
    IF loan.status = "PAID" /\ Truthy(loan.paidAt)
    THEN LET paidDateStr == format(parseISO(loan.paidAt))
         IN  [isOverdue |-> StrGt(paidDateStr, loan.dueDate),
              referenceDateStr |-> paidDateStr]
    ELSE [isOverdue |-> loan.status # "PAID" /\ StrGt(todayStr, loan.dueDate),
          referenceDateStr |-> todayStr]

\* new Date(y, m - 1, d) of a split 'yyyy-MM-dd'
parseLocalYMD(ymd) == LocalMidnight(<<ymd[1], ymd[2], ymd[3]>>)

\* variant: the due date is read as midnight UTC, new Date(dueDateStr)
DaysOverdueOfMixed(isOverdue, referenceDateStr, dueDateStr) ==
    IF isOverdue
    THEN Max(0, differenceInDays(parseLocalYMD(referenceDateStr),
                                 DaysFromCivil(dueDateStr) * HoursPerDay))
    ELSE 0

\* variant: the due day itself is counted as a day late
DaysOverdueOfInclusive(isOverdue, referenceDateStr, dueDateStr) ==
    IF isOverdue
    THEN Max(0, differenceInDays(parseLocalYMD(referenceDateStr),
                                 parseLocalYMD(dueDateStr)) + 1)
    ELSE 0

\* difference in full days between reference date and due date
DaysOverdueOf(isOverdue, referenceDateStr, dueDateStr) ==
    IF isOverdue
    THEN Max(0, differenceInDays(parseLocalYMD(referenceDateStr),
                                 parseLocalYMD(dueDateStr)))
    ELSE 0

RECURSIVE Compound(_, _, _)
Compound(balance, rate, days) ==
    IF days = 0 THEN balance
    ELSE Compound(RAdd(balance, RMul(balance, RDiv(rate, Num(100)))), rate, days - 1)

\* variant: the daily percentage compounds on the penalized balance
PenaltyOfCompounding(loan, baseTotal, isOverdue, daysOverdue) ==
    IF isOverdue /\ daysOverdue > 0
    THEN CASE loan.penaltyType = "DAILY_PERCENTAGE" ->
                RSub(Compound(baseTotal, loan.penaltyRate, daysOverdue), baseTotal)
           [] loan.penaltyType = "DAILY_VALUE" ->
                RMul(loan.penaltyRate, Num(daysOverdue))
           [] loan.penaltyType = "FIXED_VALUE" ->
                loan.penaltyRate
           [] OTHER ->
                RMul(baseTotal, RDiv(loan.penaltyRate, Num(100)))
    ELSE Num(0)

\* variant: the one-time penalties are charged per day late
PenaltyOfPerDay(loan, baseTotal, isOverdue, daysOverdue) ==
    IF isOverdue /\ daysOverdue > 0
    THEN CASE loan.penaltyType \in {"DAILY_VALUE", "FIXED_VALUE"} ->
                RMul(loan.penaltyRate, Num(daysOverdue))
           [] OTHER ->
                RMul(RMul(baseTotal, RDiv(loan.penaltyRate, Num(100))), Num(daysOverdue))
    ELSE Num(0)

\* 3. penalty
PenaltyOf(loan, baseTotal, isOverdue, daysOverdue) ==
    IF isOverdue /\ daysOverdue > 0
    THEN CASE loan.penaltyType = "DAILY_PERCENTAGE" ->
                RMul(RMul(baseTotal, RDiv(loan.penaltyRate, Num(100))), Num(daysOverdue))
           [] loan.penaltyType = "DAILY_VALUE" ->
                RMul(loan.penaltyRate, Num(daysOverdue))
           [] loan.penaltyType = "FIXED_VALUE" ->
                loan.penaltyRate
           [] OTHER ->
                RMul(baseTotal, RDiv(loan.penaltyRate, Num(100)))
    ELSE Num(0)

FinalTotalOf(baseTotal, penaltyAmount) == RAdd(baseTotal, penaltyAmount)

\* variant: the principal is not taken off the profit
ProfitOfGross(finalTotal, amount) == finalTotal

ProfitOf(finalTotal, amount) == RSub(finalTotal, amount)

calculateLoanDetails(loan, cs) ==
    LET client          == FindClient(cs, loan.clientId)
        initialInterest == InitialInterestOf(loan)
        baseTotal       == RAdd(loan.amount, initialInterest)
        od              == OverdueOf(loan, TodayStr)
        daysOverdue     == DaysOverdueOf(od.isOverdue, od.referenceDateStr, loan.dueDate)
        penaltyAmount   == PenaltyOf(loan, baseTotal, od.isOverdue, daysOverdue)
        finalTotal      == FinalTotalOf(baseTotal, penaltyAmount)
        profit          == ProfitOf(finalTotal, loan.amount)
    IN  [clientName      |-> ClientNameOf(client),
         initialInterest |-> initialInterest,
         baseTotal       |-> baseTotal,
         daysOverdue     |-> daysOverdue,
         penaltyAmount   |-> penaltyAmount,
         finalTotal      |-> finalTotal,
         profit          |-> profit,
         isOverdue       |-> od.isOverdue] @@ loan

-----------------------------------------------------------------------------
(* App: the record store *)

\* generateId(): the id handed out after n earlier ones
generateId(n) == n + 1

\* setClients(prev => [newClient, ...prev])
addClient(prev, clientData, id) ==
    <<[id |-> id, createdAt |-> toISOString(now)] @@ clientData>> \o prev

\* setClients(prev => prev.map(c => c.id === updatedClient.id ? updatedClient : c))
updateClient(prev, updatedClient) ==
    [i \in DOMAIN prev |-> IF prev[i].id = updatedClient.id THEN updatedClient ELSE prev[i]]

\* setClients(prev => prev.filter(c => c.id !== id))
deleteClient(prev, id) == SelectSeq(prev, LAMBDA c : c.id # id)

\* setLoans(prev => [newLoan, ...prev])
addLoan(prev, loanData, id) ==
    <<[id        |-> id,
       status    |-> IF loanData.status = "" THEN "ACTIVE" ELSE loanData.status,
       createdAt |-> toISOString(now),
       paidAt    |-> loanData.paidAt] @@ loanData>> \o prev

\* setLoans(prev => prev.map(l => l.id === updatedLoan.id ? updatedLoan : l))
updateLoan(prev, updatedLoan) ==
    [i \in DOMAIN prev |-> IF prev[i].id = updatedLoan.id THEN updatedLoan ELSE prev[i]]

\* variant: the status is written and paidAt is left as it was
updateLoanStatusOnly(prev, id, status) ==
    [i \in DOMAIN prev |->
        IF prev[i].id = id THEN [prev[i] EXCEPT !.status = status] ELSE prev[i]]

\* variant: the status update reaches every installment of the loan's group
updateLoanStatusGroup(prev, id, status) ==
    LET hit == {i \in DOMAIN prev : prev[i].id = id}
        grp == {prev[i].groupId : i \in hit} \ {0}
    IN  [i \in DOMAIN prev |->
            IF prev[i].id = id \/ prev[i].groupId \in grp
            THEN [prev[i] EXCEPT !.status = status,
                                 !.paidAt = IF status = "PAID" THEN toISOString(now)
                                            ELSE Undefined]
            ELSE prev[i]]

\* setLoans(prev => prev.map(loan => loan.id === id ? {...loan, status, paidAt} : loan))
updateLoanStatus(prev, id, status) ==
    [i \in DOMAIN prev |->
        IF prev[i].id = id
        THEN [prev[i] EXCEPT !.status = status,
                             !.paidAt = IF status = "PAID" THEN toISOString(now)
                                        ELSE Undefined]
        ELSE prev[i]]

\* variant: an expense whose id is not stored is added
updateExpenseUpsert(prev, updatedExpense) ==
    IF \E i \in DOMAIN prev : prev[i].id = updatedExpense.id
    THEN [i \in DOMAIN prev |->
             IF prev[i].id = updatedExpense.id THEN updatedExpense ELSE prev[i]]
    ELSE <<updatedExpense>> \o prev

\* setExpenses(prev => prev.map(e => e.id === updatedExpense.id ? updatedExpense : e))
updateExpense(prev, updatedExpense) ==
    [i \in DOMAIN prev |-> IF prev[i].id = updatedExpense.id THEN updatedExpense ELSE prev[i]]

-----------------------------------------------------------------------------
(* Loans view: the loan form *)

\* loans.find(l => l.id === id)
FindLoan(ls, id) ==
    LET hits == {i \in DOMAIN ls : ls[i].id = id}
    IN  IF hits = {} THEN <<>>
        ELSE <<ls[CHOOSE i \in hits : \A j \in hits : i <= j]>>

\* variant: the derived overdue state is written to the record
FormStatusDerived(formData) ==
    IF formData.isPaid THEN "PAID"
    ELSE IF StrGt(TodayStr, formData.dueDate) THEN "OVERDUE" ELSE "ACTIVE"

\* formData.isPaid ? LoanStatus.PAID : LoanStatus.ACTIVE
FormStatus(formData) == IF formData.isPaid THEN "PAID" ELSE "ACTIVE"

\* the fields the browser refuses to submit empty ('required'), in both modes
RequiredFilled(formData, isEditMode) ==
    /\ formData.amount # EmptyStr
    /\ formData.dueDate # EmptyStr
    /\ formData.interestRate # EmptyStr
    /\ formData.isPaid => formData.paidAt # EmptyStr
    /\ IF isEditMode THEN formData.clientName # "" ELSE formData.clientId # 0

\* openEditLoanModal(loan, client): the form filled from a loan and its client
openEditLoanModal(loan, client) ==
    [clientId         |-> loan.clientId,
     amount           |-> loan.amount,
     interestRate     |-> loan.interestRate,
     interestType     |-> IF loan.interestType = "" THEN "PERCENTAGE" ELSE loan.interestType,
     installments     |-> 1,
     dueDate          |-> loan.dueDate,
     penaltyRate      |-> loan.penaltyRate,
     penaltyType      |-> loan.penaltyType,
     isPaid           |-> loan.status = "PAID",
     paidAt           |-> IF Truthy(loan.paidAt) THEN loan.paidAt ELSE EmptyStr,
     clientName       |-> IF client = <<>> THEN "" ELSE client[1].name,
     clientPhone      |-> IF client = <<>> THEN "" ELSE client[1].phone,
     clientAddress    |-> IF client = <<>> THEN "" ELSE client[1].address,
     clientProfession |-> IF client = <<>> THEN "" ELSE client[1].profession,
     clientCollateral |-> IF client = <<>> THEN "" ELSE client[1].collateral]

\* variant: the record is built from the form alone, as for a new loan
EditedLoanRebuilt(originalLoan, formData) ==
    [originalLoan EXCEPT
        !.amount       = formData.amount,
        !.interestRate = formData.interestRate,
        !.interestType = formData.interestType,
        !.dueDate      = formData.dueDate,
        !.penaltyRate  = formData.penaltyRate,
        !.penaltyType  = formData.penaltyType,
        !.status       = FormStatus(formData),
        !.paidAt       = IF formData.isPaid
                         THEN (IF formData.paidAt # EmptyStr THEN formData.paidAt
                               ELSE toISOString(now))
                         ELSE Undefined,
        !.installmentNumber = 1,
        !.installmentTotal  = formData.installments,
        !.groupId           = 0]

\* handleSubmit, edit mode: the loan record written by onUpdateLoan
EditedLoan(originalLoan, formData) ==
    [originalLoan EXCEPT
        !.amount       = formData.amount,
        !.interestRate = formData.interestRate,
        !.interestType = formData.interestType,
        !.dueDate      = formData.dueDate,
        !.penaltyRate  = formData.penaltyRate,
        !.penaltyType  = formData.penaltyType,
        !.status       = FormStatus(formData),
        !.paidAt       = IF formData.isPaid
                         THEN (IF formData.paidAt # EmptyStr THEN formData.paidAt
                               ELSE toISOString(now))
                         ELSE Undefined]

\* handleSubmit, edit mode: the client record written by onUpdateClient
EditedClient(originalClient, formData) ==
    [originalClient EXCEPT
        !.name       = formData.clientName,
        !.phone      = formData.clientPhone,
        !.address    = formData.clientAddress,
        !.profession = formData.clientProfession,
        !.collateral = formData.clientCollateral]

\* handleSubmit, edit mode
handleSubmitEditLoans(prev, editingLoanId, formData) ==
    LET originalLoan == FindLoan(prev, editingLoanId)
    IN  IF originalLoan # <<>>
        THEN updateLoan(prev, EditedLoan(originalLoan[1], formData))
        ELSE prev

handleSubmitEditClients(prev, formData) ==
    LET originalClient == FindClient(prev, formData.clientId)
    IN  IF originalClient # <<>>
        THEN updateClient(prev, EditedClient(originalClient[1], formData))
        ELSE prev

\* handleSubmit, new loan: the data of installment i handed to onAddLoan
InstallmentData(formData, i, groupId) ==
    LET installmentsCount       == formData.installments
        principalPerInstallment == RDiv(formData.amount, Num(installmentsCount))
        baseDate                == parseISO(formData.dueDate)
    IN  [clientId          |-> formData.clientId,
         amount            |-> principalPerInstallment,
         interestRate      |-> formData.interestRate,
         interestType      |-> formData.interestType,
         dueDate           |-> format(addMonths(baseDate, i)),
         penaltyRate       |-> formData.penaltyRate,
         penaltyType       |-> formData.penaltyType,
         status            |-> FormStatus(formData),
         paidAt            |-> IF formData.isPaid THEN formData.paidAt ELSE Undefined,
         installmentNumber |-> i + 1,
         installmentTotal  |-> installmentsCount,
         groupId           |-> groupId]

\* handleSubmit, new loan: the loop over the installments, from installment i on
RECURSIVE AddInstallments(_, _, _, _, _)
AddInstallments(prev, formData, i, groupId, ids) ==
    IF i >= formData.installments THEN prev
    ELSE AddInstallments(addLoan(prev, InstallmentData(formData, i, groupId),
                                 generateId(ids)),
                         formData, i + 1, groupId, ids + 1)

\* handleSubmit, new loan
handleSubmitNew(prev, formData, ids) ==
    IF formData.clientId # 0 /\ formData.amount # EmptyStr /\ formData.dueDate # EmptyStr
    THEN IF formData.installments > 1
         THEN AddInstallments(prev, formData, 0, generateId(ids), ids + 1)
         ELSE AddInstallments(prev, formData, 0, 0, ids)
    ELSE prev

\* variant: a fixed interest value is spread over the installments
getSimulationFixedOnce(formData) ==
    LET amount       == IF formData.amount = EmptyStr THEN Num(0) ELSE formData.amount
        rate         == IF formData.interestRate = EmptyStr THEN Num(0)
                        ELSE formData.interestRate
        installments == IF formData.installments = 0 THEN 1 ELSE formData.installments
        principalPart == RDiv(amount, Num(installments))
        interestPart == IF formData.interestType = "FIXED_VALUE"
                        THEN RDiv(rate, Num(installments))
                        ELSE RMul(principalPart, RDiv(rate, Num(100)))
        parcelTotal  == RAdd(principalPart, interestPart)
    IN  [parcelTotal   |-> parcelTotal,
         totalLoan     |-> RMul(parcelTotal, Num(installments)),
         totalInterest |-> RMul(interestPart, Num(installments))]

\* getSimulation: the figures shown under the new-loan form
getSimulation(formData) ==
    LET amount       == IF formData.amount = EmptyStr THEN Num(0) ELSE formData.amount
        rate         == IF formData.interestRate = EmptyStr THEN Num(0)
                        ELSE formData.interestRate
        installments == IF formData.installments = 0 THEN 1 ELSE formData.installments
        principalPart == RDiv(amount, Num(installments))
        interestPart == IF formData.interestType = "FIXED_VALUE"
                        THEN rate
                        ELSE RMul(principalPart, RDiv(rate, Num(100)))
        parcelTotal  == RAdd(principalPart, interestPart)
    IN  [parcelTotal   |-> parcelTotal,
         totalLoan     |-> RMul(parcelTotal, Num(installments)),
         totalInterest |-> RMul(interestPart, Num(installments))]

\* ids handleSubmit draws for a new loan of n installments
IdsDrawn(n) == IF n > 1 THEN n + 1 ELSE n

-----------------------------------------------------------------------------
(* date-fns and Date operations of the summary views *)

DaysBack == 30          \* the trailing window of last30DaysProfit, in days
MonthsBack == 5         \* getMonthlyData starts this many months back
WeekStartsOn == 1       \* the forecasts' weeks start on Monday

NoView == [tab |-> "none"]

\* startOfDay(date)
startOfDay(t) == LocalMidnight(format(t))

\* startOfMonth(date)
startOfMonth(t) == LocalMidnight(<<format(t)[1], format(t)[2], 1>>)

\* subDays(date, amount): the local date moves back, the local time is kept
subDays(t, amount) ==
    LocalMidnight(CivilFromDays(LocalDay(t) - amount)) + LocalHour(t)

\* date.getDay(): 0 is Sunday; day 0 of the epoch was a Thursday
getDay(t) == (LocalDay(t) + 4) % 7

\* startOfWeek(date, {weekStartsOn})
startOfWeek(t, weekStartsOn) ==
    LET day  == getDay(t)
        diff == (IF day < weekStartsOn THEN 7 ELSE 0) + day - weekStartsOn
    IN  LocalMidnight(CivilFromDays(LocalDay(t) - diff))

isSameDay(a, b) == startOfDay(a) = startOfDay(b)
isSameWeek(a, b, weekStartsOn) == startOfWeek(a, weekStartsOn) = startOfWeek(b, weekStartsOn)
isSameMonth(a, b) == format(a)[1] = format(b)[1] /\ format(a)[2] = format(b)[2]
\* variant: the year bucket is the twelve months ahead of today
isSameYearAhead(a, b) == a >= b /\ a - b < 365 * HoursPerDay
isSameYear(a, b) == format(a)[1] = format(b)[1]

\* date.getMonth(): 0 is January
getMonth(t) == format(t)[2] - 1

\* date.setMonth(month): the month of the local date is replaced, the day of
\* the month and the time are kept; a month outside 0..11 moves the year, and
\* a day the target month does not have runs over into the next month
setMonth(t, month) ==
    LET d  == format(t)
        ym == d[1] * 12 + month
    IN  (DaysFromCivil(<<ym \div 12, (ym % 12) + 1, 1>>) + d[3] - 1) * HoursPerDay
        + LocalHour(t) - tz

\* format(date, 'MMM/yy', {locale: ptBR}): the month and the last two digits
\* of the year
formatMonthKey(t) == <<format(t)[2], format(t)[1] % 100>>

-----------------------------------------------------------------------------
(* Profits view and Dashboard view *)

\* variant: the loans whose client is missing are left out of the list
RenderedKnownOnly(ls, cs) ==
    LET known == SelectSeq(ls, LAMBDA l : FindClient(cs, l.clientId) # <<>>)
    IN  [i \in DOMAIN known |-> calculateLoanDetails(known[i], cs)]

\* loans.map(l => calculateLoanDetails(l, clients))
Rendered(ls, cs) == [i \in DOMAIN ls |-> calculateLoanDetails(ls[i], cs)]

\* list.reduce((acc, curr) => acc + curr[f], 0)
RECURSIVE SumOf(_, _)
SumOf(list, f) ==
    IF list = <<>> THEN Num(0)
    ELSE RAdd(SumOf(SubSeq(list, 1, Len(list) - 1), f), list[Len(list)][f])

\* variant: the loans are not filtered by status
activeLoansUnfiltered(calculated) == calculated

\* calculatedLoans.filter(l => l.status === LoanStatus.ACTIVE)
activeLoans(calculated) == SelectSeq(calculated, LAMBDA l : l.status = "ACTIVE")

\* Profits: calculatedLoans.filter(l => l.status === LoanStatus.PAID && l.paidAt)
paidLoansProfits(calculated) ==
    SelectSeq(calculated, LAMBDA l : l.status = "PAID" /\ Truthy(l.paidAt))

\* variant: the realized sums of the Dashboard run over every loan
paidLoansDashboardAll(calculated) == calculated

\* Dashboard: calculatedLoans.filter(l => l.status === LoanStatus.PAID)
paidLoansDashboard(calculated) == SelectSeq(calculated, LAMBDA l : l.status = "PAID")

\* variant: every overdue snapshot is taken, whatever its status
overdueLoansAnyStatus(calculated) == SelectSeq(calculated, LAMBDA l : l.isOverdue)

\* Dashboard, 'Próximos Vencimentos':
\* calculatedLoans.filter(l => l.status === LoanStatus.ACTIVE && !l.isOverdue)
upcomingLoans(calculated) ==
    SelectSeq(calculated, LAMBDA l : l.status = "ACTIVE" /\ ~l.isOverdue)

\* Dashboard, 'Em Atraso':
\* calculatedLoans.filter(l => l.isOverdue && l.status !== LoanStatus.PAID)
overdueNotPaid(calculated) ==
    SelectSeq(calculated, LAMBDA l : l.isOverdue /\ l.status # "PAID")

\* Dashboard: calculatedLoans.filter(l => l.isOverdue && l.status === LoanStatus.ACTIVE)
overdueLoans(calculated) ==
    SelectSeq(calculated, LAMBDA l : l.isOverdue /\ l.status = "ACTIVE")

\* Profits: paid loans with parseISO(paidAt) >= startOfMonth(new Date())
monthProfit(paid) ==
    SumOf(SelectSeq(paid, LAMBDA l : Truthy(l.paidAt)
                                     /\ parseISO(l.paidAt) >= startOfMonth(now)),
          "profit")

\* Profits: paid loans with parseISO(paidAt) >= subDays(new Date(), 30)
last30DaysProfit(paid) ==
    SumOf(SelectSeq(paid, LAMBDA l : Truthy(l.paidAt)
                                     /\ parseISO(l.paidAt) >= subDays(now, DaysBack)),
          "profit")

\* the filter functions handed to getInterestForecast / getForecast, where
\* today is startOfDay(new Date())
filterFn(period, d, today) ==
    CASE period = "day"   -> isSameDay(d, today)
      [] period = "week"  -> isSameWeek(d, today, WeekStartsOn)
      [] period = "month" -> isSameMonth(d, today)
      [] period = "year"  -> isSameYear(d, today)

\* getInterestForecast / getForecast: the active loans whose due date passes
\* the filter of the period, summed over field f
getForecast(active, period, today, f) ==
    SumOf(SelectSeq(active, LAMBDA l : filterFn(period, parseISO(l.dueDate), today)), f)

\* data[key] = 0 on the object 'data': a new key is added after the others, a
\* key that is already there keeps its place
PutZero(data, key) ==
    IF \E i \in DOMAIN data : data[i].key = key
    THEN [i \in DOMAIN data |->
             IF data[i].key = key THEN [data[i] EXCEPT !.value = Num(0)] ELSE data[i]]
    ELSE Append(data, [key |-> key, value |-> Num(0)])

\* getMonthlyData, the first loop: for (let i = ...; i >= 0; i--)
RECURSIVE MonthlyKeys(_, _)
MonthlyKeys(data, i) ==
    IF i < 0 THEN data
    ELSE MonthlyKeys(PutZero(data, formatMonthKey(setMonth(now, getMonth(now) - i))),
                     i - 1)

\* getMonthlyData, the body of paidLoans.forEach
AddPaidLoan(data, loan) ==
    IF Truthy(loan.paidAt)
    THEN LET key == formatMonthKey(parseISO(loan.paidAt))
         IN  [i \in DOMAIN data |->
                 IF data[i].key = key
                 THEN [data[i] EXCEPT !.value = RAdd(@, loan.profit)]
                 ELSE data[i]]
    ELSE data

RECURSIVE AddPaidLoans(_, _, _)
AddPaidLoans(data, paid, k) ==
    IF k > Len(paid) THEN data
    ELSE AddPaidLoans(AddPaidLoan(data, paid[k]), paid, k + 1)

\* getMonthlyData(): Object.entries(data)
getMonthlyData(paid) == AddPaidLoans(MonthlyKeys(<<>>, MonthsBack), paid, 1)

\* list.sort((a, b) => b.totalProfit - a.totalProfit): c is put behind the
\* entries that do not sort after it
InsertByTotal(sorted, c) ==
    LET before == {i \in DOMAIN sorted : ~RGt(c.totalProfit, sorted[i].totalProfit)}
        k      == IF \E i \in DOMAIN sorted : i \notin before
                  THEN (CHOOSE i \in DOMAIN sorted :
                            i \notin before /\ \A j \in DOMAIN sorted : j < i => j \in before) - 1
                  ELSE Len(sorted)
    IN  SubSeq(sorted, 1, k) \o <<c>> \o SubSeq(sorted, k + 1, Len(sorted))

RECURSIVE SortByTotal(_)
SortByTotal(list) ==
    IF list = <<>> THEN <<>>
    ELSE InsertByTotal(SortByTotal(SubSeq(list, 1, Len(list) - 1)), list[Len(list)])

\* Profits: profitByClient
profitByClient(cs, paid) ==
    LET totals == [i \in DOMAIN cs |->
                      [totalProfit |->
                           SumOf(SelectSeq(paid, LAMBDA l : l.clientId = cs[i].id),
                                 "profit")] @@ cs[i]]
    IN  SortByTotal(SelectSeq(totals, LAMBDA c : RGt(c.totalProfit, Num(0))))

\* Profits: the figures computed from paidLoans, activeLoans, the total of the
\* expenses and now = startOfDay(new Date())
ProfitsFigures(cs, paid, active, totalExpenses, today) ==
    [tab                   |-> "profits",
     grossProfit           |-> SumOf(paid, "profit"),
     totalExpenses         |-> totalExpenses,
     netProfit             |-> RSub(SumOf(paid, "profit"), totalExpenses),
     monthProfit           |-> monthProfit(paid),
     last30DaysProfit      |-> last30DaysProfit(paid),
     forecastInterestDay   |-> getForecast(active, "day", today, "initialInterest"),
     forecastInterestWeek  |-> getForecast(active, "week", today, "initialInterest"),
     forecastInterestMonth |-> getForecast(active, "month", today, "initialInterest"),
     forecastInterestYear  |-> getForecast(active, "year", today, "initialInterest"),
     chartData             |-> getMonthlyData(paid),
     profitByClient        |-> profitByClient(cs, paid)]

\* Profits: paidLoans, activeLoans and totalExpenses of the calculated loans
ProfitsOf(cs, calculated, es) ==
    ProfitsFigures(cs, paidLoansProfits(calculated), activeLoans(calculated),
                   SumOf(es, "amount"), startOfDay(now))

\* what the Profits view computes from the store when it renders
Profits(cs, ls, es) == ProfitsOf(cs, Rendered(ls, cs), es)

\* Dashboard: the figures computed from activeLoans, overdueLoans, paidLoans,
\* the total of the expenses and now = startOfDay(new Date())
DashboardFigures(active, overdue, paid, totalExpenses, today) ==
    [tab                     |-> "dashboard",
     totalLentActive         |-> SumOf(active, "amount"),
     totalReceivable         |-> SumOf(active, "finalTotal"),
     totalOverdue            |-> SumOf(overdue, "finalTotal"),
     grossRealizedProfit     |-> SumOf(paid, "profit"),
     grossProjectedProfit    |-> SumOf(active, "profit"),
     totalExpenses           |-> totalExpenses,
     netRealizedProfit       |-> RSub(SumOf(paid, "profit"), totalExpenses),
     netProjectedProfit      |-> RSub(SumOf(active, "profit"), totalExpenses),
     totalPenaltiesCollected |-> SumOf(paid, "penaltyAmount"),
     totalPenaltiesPending   |-> SumOf(overdue, "penaltyAmount"),
     forecastDay             |-> getForecast(active, "day", today, "finalTotal"),
     forecastWeek            |-> getForecast(active, "week", today, "finalTotal"),
     forecastMonth           |-> getForecast(active, "month", today, "finalTotal"),
     forecastYear            |-> getForecast(active, "year", today, "finalTotal")]

\* Dashboard: activeLoans, overdueLoans, paidLoans and totalExpenses of the
\* calculated loans
DashboardOf(calculated, es) ==
    DashboardFigures(activeLoans(calculated), overdueLoans(calculated),
                     paidLoansDashboard(calculated), SumOf(es, "amount"),
                     startOfDay(now))

\* what the Dashboard computes from the store when it renders
Dashboard(cs, ls, es) == DashboardOf(Rendered(ls, cs), es)

-----------------------------------------------------------------------------
(* The session: App's authentication state and the Login view.  A text the  *)
(* user types, a user name and a password are sequences of one-character    *)
(* strings.                                                                 *)

\* sessionStorage.getItem of a key that is not stored
Null == <<"null">>

UpperCaseLetters == <<"A", "D", "I", "E", "G", "O", "R", "T", "H", "U", "N", "P">>
LowerCaseLetters == <<"a", "d", "i", "e", "g", "o", "r", "t", "h", "u", "n", "p">>

\* String.prototype.toLowerCase and toUpperCase, over the letters that are typed
toLowerCaseChar(c) ==
    IF \E i \in DOMAIN UpperCaseLetters : UpperCaseLetters[i] = c
    THEN LowerCaseLetters[CHOOSE i \in DOMAIN UpperCaseLetters : UpperCaseLetters[i] = c]
    ELSE c
toUpperCaseChar(c) ==
    IF \E i \in DOMAIN LowerCaseLetters : LowerCaseLetters[i] = c
    THEN UpperCaseLetters[CHOOSE i \in DOMAIN LowerCaseLetters : LowerCaseLetters[i] = c]
    ELSE c
toLowerCase(str) == [i \in DOMAIN str |-> toLowerCaseChar(str[i])]

\* String.prototype.trim: the spaces at both ends are removed
RECURSIVE trimStart(_)
trimStart(str) ==
    IF str # <<>> /\ Head(str) = " " THEN trimStart(Tail(str)) ELSE str
RECURSIVE trimEnd(_)
trimEnd(str) ==
    IF str # <<>> /\ str[Len(str)] = " "
    THEN trimEnd(SubSeq(str, 1, Len(str) - 1)) ELSE str
trim(str) == trimEnd(trimStart(str))

\* Login: const credentials = { 'diego': ..., 'arthur': ..., 'andre': ... }
credentials ==
    (<<"d", "i", "e", "g", "o">> :> <<"p", "a", "d", "r", "i", "n", "h", "o", "2", "1", "4", "8">>) @@ (<<"a", "r", "t", "h", "u", "r">> :> <<"p", "a", "d", "r", "i", "n", "h", "o", "2", "1", "9", "7">>) @@ (<<"a", "n", "d", "r", "e">> :> <<"p", "a", "d", "r", "i", "n", "h", "o", "3", "5", "4", "7">>)

\* a property every object inherits, and the value read from it
InheritedKeys == {<<"c", "o", "n", "s", "t", "r", "u", "c", "t", "o", "r">>}
InheritedValue == <<"function">>

\* credentials[normalizedUser]
CredentialOf(normalizedUser) ==
    IF normalizedUser \in DOMAIN credentials THEN credentials[normalizedUser]
    ELSE IF normalizedUser \in InheritedKeys THEN InheritedValue
    ELSE Undefined

\* normalizedUser.charAt(0).toUpperCase() + normalizedUser.slice(1)
DisplayName(normalizedUser) ==
    <<toUpperCaseChar(Head(normalizedUser))>> \o Tail(normalizedUser)

LoginError == "Usuário ou senha incorretos."

\* the Login view as it mounts
EmptyLogin == [username |-> <<>>, password |-> <<>>, error |-> ""]

\* Login.handleLogin: whether the typed user name and password are accepted
LoginAccepts(username, password) ==
    /\ Truthy(CredentialOf(toLowerCase(trim(username))))
    /\ CredentialOf(toLowerCase(trim(username))) = trim(password)

DataViews == {"dashboard", "clients", "loans", "profits", "expenses"}

\* what App returns: the loading text, the Login view, or the layout with the
\* view of the active tab
AppRender(checking, authenticated, user, tab) ==
    IF checking THEN "loading"
    ELSE IF ~authenticated THEN "login"
    ELSE tab

\* the state in which the other specifications run: a user is logged in
SessionOpen ==
    /\ isAuthenticated = TRUE
    /\ currentUser = DisplayName(<<"d", "i", "e", "g", "o">>)
    /\ isAuthChecking = FALSE
    /\ activeTab = "dashboard"
    /\ sessionStorage = DisplayName(<<"d", "i", "e", "g", "o">>)
    /\ login = EmptyLogin
    /\ screen = "dashboard"

\* no call has been observed; no form has been submitted
NoCall == [op |-> "none"]
NoSimulation == [parcelTotal |-> Num(0), totalLoan |-> Num(0), totalInterest |-> Num(0)]

-----------------------------------------------------------------------------
(* Bounds and input sets *)

MaxClockHours == 54     \* hours the clock runs after ClockStart
TickHours == 5          \* hours between two observations of the clock
MaxLoans == 2           \* loans the store holds at most
MaxClients == 1         \* clients the store holds at most
MaxIds == 4             \* ids generateId hands out at most
MaxInstallments == 12   \* the installment counts the form offers: 1x .. 12x
ViewClockHours == 68    \* hours the clock runs while the summary views are observed
ViewTickHours == 17     \* hours between two observations of that clock

TZOffsets == {-3, 0, 14}
ClockStart == DaysFromCivil(<<2024, 3, 1>>) * HoursPerDay
ClockEnd == ClockStart + MaxClockHours

Amounts == {Num(1000), Num(2500)}
InterestRates == {Num(10), Num(200)}
PenaltyRates == {Num(5), Num(10)}
InterestTypes == {"PERCENTAGE", "FIXED_VALUE"}
PenaltyTypes == {"FIXED", "FIXED_VALUE", "DAILY_PERCENTAGE", "DAILY_VALUE"}
DueDates == {<<2024, 2, 29>>, <<2024, 3, 1>>}
PaidDates == {<<2024, 2, 29>>, <<2024, 3, 1>>, <<2024, 3, 2>>, <<2024, 3, 4>>}
PaidInstants == {<<2024, 3, 1, 23>>, <<2024, 3, 2, 1>>}

\* what the user enters in the client form and in the loan form
ClientNames == {"Ana", "Bia"}
ClientForms ==
    [name : ClientNames \cup {""}, phone : {"11"}, address : {""}, profession : {""},
     cpf : {"529.982.247-25"}, photo : {"data:image/png"}, collateral : {""}]
FormAmounts == {Num(1200)}
FormInterestRates == {Num(10)}
FormInterestTypes == {"PERCENTAGE"}
FormPenaltyRates == {Num(5)}
FormPenaltyTypes == {"DAILY_PERCENTAGE"}
FormDueDates == {<<2024, 1, 31>>}
FormPaidDates == {<<2024, 3, 2>>}

\* the new-loan form after openNewLoanModal and the user's input
NewLoanForms(cs) ==
    [clientId : {0} \cup {cs[i].id : i \in DOMAIN cs},
     amount : FormAmounts \cup {EmptyStr},
     interestRate : FormInterestRates,
     interestType : FormInterestTypes,
     installments : 1..MaxInstallments,
     dueDate : FormDueDates \cup {EmptyStr},
     penaltyRate : FormPenaltyRates,
     penaltyType : FormPenaltyTypes,
     isPaid : BOOLEAN,
     paidAt : FormPaidDates \cup {EmptyStr},
     clientName : {""}, clientPhone : {""}, clientAddress : {""},
     clientProfession : {""}, clientCollateral : {""}]

\* the edit form after openEditLoanModal(loan, client) and the user's input;
\* the client and the installment count cannot be changed in edit mode
EditLoanForms(loan, client) ==
    LET opened == openEditLoanModal(loan, client)
    IN  [clientId : {opened.clientId},
         amount : FormAmounts \cup {opened.amount},
         interestRate : FormInterestRates \cup {opened.interestRate},
         interestType : FormInterestTypes,
         installments : {opened.installments},
         dueDate : FormDueDates \cup {opened.dueDate},
         penaltyRate : FormPenaltyRates \cup {opened.penaltyRate},
         penaltyType : FormPenaltyTypes \cup {opened.penaltyType},
         isPaid : BOOLEAN,
         paidAt : FormPaidDates \cup {opened.paidAt, EmptyStr},
         clientName : ClientNames \cup {opened.clientName, ""},
         clientPhone : {opened.clientPhone}, clientAddress : {opened.clientAddress},
         clientProfession : {opened.clientProfession},
         clientCollateral : {opened.clientCollateral}]

Client1 ==
    [id |-> 1, name |-> "Ana", phone |-> "", address |-> "", profession |-> "",
     cpf |-> "", photo |-> "", collateral |-> "", createdAt |-> toISOString(ClockStart)]

\* the loan of scenario A, paid five days late
ScenarioA ==
    [id |-> 1, clientId |-> 1, amount |-> Num(1000), interestRate |-> Num(10),
     interestType |-> "PERCENTAGE", dueDate |-> <<2024, 1, 10>>,
     penaltyRate |-> Num(5), penaltyType |-> "FIXED", status |-> "PAID",
     createdAt |-> toISOString(ClockStart), paidAt |-> <<2024, 1, 15>>,
     installmentNumber |-> 1, installmentTotal |-> 1, groupId |-> 0]

\* stored loan records handed to the engine: what the form and the status
\* button write, and records of older versions of the store (no interestType,
\* an unknown penaltyType, status OVERDUE, PAID without paidAt)
CalcLoans ==
    {l \in
    [id : {1}, clientId : {1},
     amount : Amounts, interestRate : InterestRates,
     interestType : InterestTypes \cup {""},
     dueDate : DueDates,
     penaltyRate : PenaltyRates, penaltyType : PenaltyTypes \cup {"LEGACY"},
     status : {"ACTIVE", "PAID", "OVERDUE"},
     createdAt : {toISOString(ClockStart)},
     paidAt : {Undefined} \cup PaidDates \cup PaidInstants,
     installmentNumber : {1}, installmentTotal : {1}, groupId : {0}] :
        \/ l.status = "PAID"
        \/ l.paidAt = Undefined
        \/ l.status = "ACTIVE" /\ l.paidAt = <<2024, 3, 2>>}
    \cup {ScenarioA}

-----------------------------------------------------------------------------
(* Actions *)

\* the clock advances
Tick ==
    /\ now + TickHours <= ClockEnd
    /\ now' = now + TickHours
    /\ UNCHANGED <<clients, loans, calculatedLoans, renderedDay, tz, nextId, expenses, view, viewedAt,
                   lastCall, simulation, sessionVars>>

\* the Loans view is rendered (mounted, or rendered again)
Render ==
    /\ calculatedLoans' = Rendered(loans, clients)
    /\ renderedDay' = LocalDay(now)
    /\ UNCHANGED <<clients, loans, now, tz, nextId, expenses, view, viewedAt,
                   lastCall, simulation, sessionVars>>

\* Clients view, handleSubmit of a new client: onAddClient
SubmitNewClient ==
    \E formData \in ClientForms :
        /\ formData.name # "" /\ formData.phone # ""
        /\ Len(clients) < MaxClients
        /\ nextId < MaxIds
        /\ clients' = addClient(clients, formData, generateId(nextId))
        /\ nextId' = nextId + 1
        /\ UNCHANGED <<loans, calculatedLoans, renderedDay, now, tz, expenses, view, viewedAt,
                   lastCall, simulation, sessionVars>>

\* variant: deleting a client also deletes the client's loans
DeleteClientCascade ==
    \E i \in DOMAIN clients :
        /\ clients' = deleteClient(clients, clients[i].id)
        /\ loans' = SelectSeq(loans, LAMBDA l : l.clientId # clients[i].id)
        /\ UNCHANGED <<calculatedLoans, renderedDay, now, tz, nextId, expenses, view, viewedAt,
                   lastCall, simulation, sessionVars>>

\* Clients view, handleDelete: onDeleteClient, confirmed by the user
DeleteClient ==
    \E i \in DOMAIN clients :
        /\ clients' = deleteClient(clients, clients[i].id)
        /\ UNCHANGED <<loans, calculatedLoans, renderedDay, now, tz, nextId, expenses, view, viewedAt,
                   lastCall, simulation, sessionVars>>

\* Loans view, handleSubmit of the new-loan form, and the render that follows
SubmitNewLoan ==
    \E formData \in NewLoanForms(clients) :
        /\ Len(loans) + formData.installments <= MaxLoans
        /\ nextId + IdsDrawn(formData.installments) <= MaxIds
        /\ RequiredFilled(formData, FALSE)
        /\ loans' = handleSubmitNew(loans, formData, nextId)
        /\ nextId' = nextId + IdsDrawn(formData.installments)
        /\ calculatedLoans' = Rendered(loans', clients)
        /\ renderedDay' = LocalDay(now)
        /\ UNCHANGED <<clients, now, tz, expenses, view, viewedAt,
                   lastCall, simulation, sessionVars>>

\* Loans view, handleSubmit of the edit form of a listed loan, and the render
\* that follows
SubmitEditLoan ==
    \E i \in DOMAIN loans :
        \E formData \in EditLoanForms(loans[i], FindClient(clients, loans[i].clientId)) :
            /\ RequiredFilled(formData, TRUE)
            /\ loans' = handleSubmitEditLoans(loans, loans[i].id, formData)
            /\ clients' = handleSubmitEditClients(clients, formData)
            /\ calculatedLoans' = Rendered(loans', clients')
            /\ renderedDay' = LocalDay(now)
            /\ UNCHANGED <<now, tz, nextId, expenses, view, viewedAt,
                   lastCall, simulation, sessionVars>>

\* Loans view, the 'Pagar' button of a loan that is not paid:
\* onUpdateStatus(loan.id, LoanStatus.PAID), and the render that follows
ClickPay ==
    \E i \in DOMAIN loans :
        /\ loans[i].status # "PAID"
        /\ loans' = updateLoanStatus(loans, loans[i].id, "PAID")
        /\ calculatedLoans' = Rendered(loans', clients)
        /\ renderedDay' = LocalDay(now)
        /\ UNCHANGED <<clients, now, tz, nextId, expenses, view, viewedAt,
                   lastCall, simulation, sessionVars>>

-----------------------------------------------------------------------------
(* The application: the store, the forms and the clock *)

StoreClockStart == ClockEnd - TickHours

Init ==
    /\ clients = <<>>
    /\ loans = <<>>
    /\ calculatedLoans = <<>>
    /\ renderedDay = 0
    /\ now = StoreClockStart
    /\ tz \in TZOffsets
    /\ nextId = 0
    /\ expenses = <<>>
    /\ view = NoView
    /\ viewedAt = 0
    /\ lastCall = NoCall
    /\ simulation = NoSimulation
    /\ SessionOpen

Next ==
    \/ SubmitNewClient
    \/ DeleteClient
    \/ SubmitNewLoan
    \/ SubmitEditLoan
    \/ ClickPay
    \/ Render
    \/ Tick

Spec == Init /\ [][Next]_vars

-----------------------------------------------------------------------------
(* The calculation engine applied to one stored record *)

InitCalc ==
    /\ clients = <<Client1>>
    /\ loans \in {<<l>> : l \in CalcLoans}
    /\ calculatedLoans = <<>>
    /\ renderedDay = 0
    /\ now = ClockStart
    /\ tz \in TZOffsets
    /\ nextId = 1
    /\ expenses = <<>>
    /\ view = NoView
    /\ viewedAt = 0
    /\ lastCall = NoCall
    /\ simulation = NoSimulation
    /\ SessionOpen

NextCalc == Tick \/ Render

SpecCalc == InitCalc /\ [][NextCalc]_vars

-----------------------------------------------------------------------------
(* The summary views over a store the forms and buttons have filled *)

ViewClockStart == DaysFromCivil(<<2024, 3, 29>>) * HoursPerDay + 10
ViewClockEnd == ViewClockStart + ViewClockHours

Client2 ==
    [id |-> 2, name |-> "Bia", phone |-> "", address |-> "", profession |-> "",
     cpf |-> "", photo |-> "", collateral |-> "", createdAt |-> toISOString(ClockStart)]

\* amount and interest rate of the stored loans
ViewTerms == {<<Num(1000), Num(10)>>, <<Num(2500), Num(10)>>, <<Num(1000), Num(0)>>}

\* status, due date and payment date of the stored loans: ACTIVE loans due
\* before, on and after the observed days, PAID loans paid in an earlier month,
\* in the observed days (by the form and by the 'Pagar' button) and, by a date
\* typed into the form, after them
ViewShapes ==
    [status : {"ACTIVE"}, paidAt : {Undefined},
     dueDate : {<<2024, 3, 20>>, <<2024, 3, 31>>, <<2024, 4, 1>>}]
    \cup
    [status : {"PAID"}, dueDate : {<<2024, 3, 20>>},
     paidAt : {<<2023, 10, 15>>, <<2024, 3, 30>>, <<2024, 4, 5>>, <<2024, 3, 29, 2>>}]

ViewShapesSecond ==
    {[status |-> "ACTIVE", paidAt |-> Undefined, dueDate |-> <<2024, 3, 31>>],
     [status |-> "PAID", paidAt |-> <<2024, 3, 30>>, dueDate |-> <<2024, 3, 20>>],
     [status |-> "PAID", paidAt |-> <<2024, 4, 5>>, dueDate |-> <<2024, 3, 20>>]}

ViewLoan(id, clientId, terms, shape) ==
    [id |-> id, clientId |-> clientId, amount |-> terms[1], interestRate |-> terms[2],
     interestType |-> "PERCENTAGE", dueDate |-> shape.dueDate,
     penaltyRate |-> Num(10), penaltyType |-> "DAILY_VALUE", status |-> shape.status,
     createdAt |-> toISOString(ClockStart), paidAt |-> shape.paidAt,
     installmentNumber |-> 1, installmentTotal |-> 1, groupId |-> 0]

\* the stored loans: none, one, or two; client 3 has been deleted
ViewLoanLists ==
    LET first  == {ViewLoan(1, c, t, sh) : c \in {1, 2, 3}, t \in ViewTerms, sh \in ViewShapes}
        second == {ViewLoan(2, c, <<Num(1000), Num(10)>>, sh) :
                       c \in {2, 3}, sh \in ViewShapesSecond}
    IN  {<<>>} \cup {<<a>> : a \in first} \cup {<<b, a>> : b \in second, a \in first}

ViewExpense(id, amount) ==
    [id |-> id, description |-> "aluguel", amount |-> amount, category |-> "",
     date |-> <<2024, 3, 1>>, notes |-> "", createdAt |-> toISOString(ClockStart)]

ViewExpenseLists == {<<>>, <<ViewExpense(6, Num(40)), ViewExpense(5, Num(125))>>}

\* the clock advances while a summary view is open
TickView ==
    /\ now + ViewTickHours <= ViewClockEnd
    /\ now' = now + ViewTickHours
    /\ UNCHANGED <<clients, loans, calculatedLoans, renderedDay, tz, nextId,
                   expenses, view, viewedAt,
                   lastCall, simulation, sessionVars>>

\* activeTab === 'dashboard': the Dashboard is mounted, or rendered again
RenderDashboard ==
    /\ view' = Dashboard(clients, loans, expenses)
    /\ viewedAt' = now
    /\ UNCHANGED <<clients, loans, calculatedLoans, renderedDay, now, tz, nextId, expenses,
                   lastCall, simulation, sessionVars>>

\* activeTab === 'profits': the Profits view is mounted, or rendered again
RenderProfits ==
    /\ view' = Profits(clients, loans, expenses)
    /\ viewedAt' = now
    /\ UNCHANGED <<clients, loans, calculatedLoans, renderedDay, now, tz, nextId, expenses,
                   lastCall, simulation, sessionVars>>

InitViews ==
    /\ clients = <<Client2, Client1>>
    /\ loans \in ViewLoanLists
    /\ expenses \in ViewExpenseLists
    /\ calculatedLoans = <<>>
    /\ renderedDay = 0
    /\ now = ViewClockStart
    /\ tz \in TZOffsets
    /\ nextId = MaxIds
    /\ view = NoView
    /\ viewedAt = 0
    /\ lastCall = NoCall
    /\ simulation = NoSimulation
    /\ SessionOpen

NextViews == TickView \/ RenderDashboard \/ RenderProfits

SpecViews == InitViews /\ [][NextViews]_vars

-----------------------------------------------------------------------------
(* The session: the page is loaded on an empty session, the user types into *)
(* the login form, logs in, changes tab, logs out and reloads the page      *)

TypedUsernames ==
    {<<"d", "i", "e", "g", "o">>, 
     <<" ", "D", "i", "e", "g", "o", " ">>, 
     <<"A", "R", "T", "H", "U", "R">>, 
     <<"a", "n", "d", "r", "e">>, 
     <<"a", "n", "a">>, 
     <<" ">>, 
     <<"c", "o", "n", "s", "t", "r", "u", "c", "t", "o", "r">>}

TypedPasswords ==
    {<<"p", "a", "d", "r", "i", "n", "h", "o", "2", "1", "4", "8">>, 
     <<" ", "p", "a", "d", "r", "i", "n", "h", "o", "2", "1", "4", "8", " ">>, 
     <<"p", "a", "d", "r", "i", "n", "h", "o", "2", "1", "9", "7">>, 
     <<"p", "a", "d", "r", "i", "n", "h", "o", "3", "5", "4", "7">>, 
     <<"P", "A", "D", "R", "I", "N", "H", "O", "2", "1", "4", "8">>, 
     <<"1", "2", "3">>}

\* App, useEffect on mount: the session check
SessionCheck ==
    /\ isAuthChecking
    /\ IF sessionStorage # Null /\ sessionStorage # <<>>
       THEN currentUser' = sessionStorage /\ isAuthenticated' = TRUE
       ELSE UNCHANGED <<currentUser, isAuthenticated>>
    /\ isAuthChecking' = FALSE
    /\ screen' = AppRender(isAuthChecking', isAuthenticated', currentUser', activeTab)
    /\ UNCHANGED <<clients, loans, calculatedLoans, renderedDay, now, tz, nextId,
                   expenses, view, viewedAt, lastCall, simulation,
                   activeTab, sessionStorage, login>>

\* Login, onChange of the user name input
TypeUsername ==
    \E text \in TypedUsernames :
        /\ screen = "login"
        /\ login' = [login EXCEPT !.username = text, !.error = ""]
        /\ UNCHANGED <<clients, loans, calculatedLoans, renderedDay, now, tz, nextId,
                       expenses, view, viewedAt, lastCall, simulation,
                       isAuthenticated, currentUser, isAuthChecking, activeTab,
                       sessionStorage, screen>>

\* Login, onChange of the password input
TypePassword ==
    \E text \in TypedPasswords :
        /\ screen = "login"
        /\ login' = [login EXCEPT !.password = text, !.error = ""]
        /\ UNCHANGED <<clients, loans, calculatedLoans, renderedDay, now, tz, nextId,
                       expenses, view, viewedAt, lastCall, simulation,
                       isAuthenticated, currentUser, isAuthChecking, activeTab,
                       sessionStorage, screen>>

\* Login.handleLogin on submit (both inputs are required), and App.handleLogin
\* when the credentials are accepted
SubmitLogin ==
    /\ screen = "login"
    /\ login.username # <<>> /\ login.password # <<>>
    /\ IF LoginAccepts(login.username, login.password)
       THEN /\ sessionStorage' = DisplayName(toLowerCase(trim(login.username)))
            /\ currentUser' = DisplayName(toLowerCase(trim(login.username)))
            /\ isAuthenticated' = TRUE
            /\ activeTab' = "dashboard"
            /\ login' = EmptyLogin
       ELSE /\ login' = [login EXCEPT !.error = LoginError]
            /\ UNCHANGED <<sessionStorage, currentUser, isAuthenticated, activeTab>>
    /\ screen' = AppRender(isAuthChecking, isAuthenticated', currentUser', activeTab')
    /\ UNCHANGED <<clients, loans, calculatedLoans, renderedDay, now, tz, nextId,
                   expenses, view, viewedAt, lastCall, simulation, isAuthChecking>>

\* variant: the session entry is left in place
LogoutKeepingSession ==
    /\ screen \in DataViews
    /\ isAuthenticated' = FALSE
    /\ currentUser' = <<>>
    /\ login' = EmptyLogin
    /\ screen' = AppRender(isAuthChecking, isAuthenticated', currentUser', activeTab)
    /\ UNCHANGED <<clients, loans, calculatedLoans, renderedDay, now, tz, nextId,
                   expenses, view, viewedAt, lastCall, simulation,
                   isAuthChecking, activeTab, sessionStorage>>

\* App.handleLogout, from the button of the layout; the Login view mounts
Logout ==
    /\ screen \in DataViews
    /\ sessionStorage' = Null
    /\ isAuthenticated' = FALSE
    /\ currentUser' = <<>>
    /\ login' = EmptyLogin
    /\ screen' = AppRender(isAuthChecking, isAuthenticated', currentUser', activeTab)
    /\ UNCHANGED <<clients, loans, calculatedLoans, renderedDay, now, tz, nextId,
                   expenses, view, viewedAt, lastCall, simulation,
                   isAuthChecking, activeTab>>

\* NavItem, onClick: setActiveTab(id)
SelectTab ==
    \E id \in DataViews :
        /\ screen \in DataViews
        /\ activeTab' = id
        /\ screen' = AppRender(isAuthChecking, isAuthenticated, currentUser, activeTab')
        /\ UNCHANGED <<clients, loans, calculatedLoans, renderedDay, now, tz, nextId,
                       expenses, view, viewedAt, lastCall, simulation,
                       isAuthenticated, currentUser, isAuthChecking,
                       sessionStorage, login>>

\* the page is reloaded: the state of App starts again, the session storage
\* of the tab is kept
Reload ==
    /\ isAuthenticated' = FALSE
    /\ currentUser' = <<>>
    /\ isAuthChecking' = TRUE
    /\ activeTab' = "dashboard"
    /\ login' = EmptyLogin
    /\ screen' = AppRender(isAuthChecking', isAuthenticated', currentUser', activeTab')
    /\ UNCHANGED <<clients, loans, calculatedLoans, renderedDay, now, tz, nextId,
                   expenses, view, viewedAt, lastCall, simulation, sessionStorage>>

InitAuth ==
    /\ clients = <<>>
    /\ loans = <<>>
    /\ calculatedLoans = <<>>
    /\ renderedDay = 0
    /\ now = ClockStart
    /\ tz = 0
    /\ nextId = 0
    /\ expenses = <<>>
    /\ view = NoView
    /\ viewedAt = 0
    /\ lastCall = NoCall
    /\ simulation = NoSimulation
    /\ isAuthenticated = FALSE
    /\ currentUser = <<>>
    /\ isAuthChecking = TRUE
    /\ activeTab = "dashboard"
    /\ sessionStorage = Null
    /\ login = EmptyLogin
    /\ screen = "loading"

NextAuth ==
    \/ SessionCheck
    \/ TypeUsername
    \/ TypePassword
    \/ SubmitLogin
    \/ Logout
    \/ SelectTab
    \/ Reload

SpecAuth == InitAuth /\ [][NextAuth]_vars

-----------------------------------------------------------------------------
(* The update handlers of the store, called with records whose id is stored *)
(* and records whose id is not                                              *)

\* the records handed to updateClient: clients 1 and 2 are stored, 3 is not
UpdatedClients ==
    {[Client1 EXCEPT !.id = id, !.name = name, !.phone = phone] :
        id \in {1, 2, 3}, name \in ClientNames, phone \in {"", "11"}}

\* the records handed to updateLoan: loans 1 and 2 are stored, 7 is not
UpdatedLoans ==
    {ViewLoan(id, 1, terms, shape) :
        id \in {1, 2, 7},
        terms \in {<<Num(1000), Num(10)>>, <<Num(2500), Num(10)>>},
        shape \in {[status |-> "ACTIVE", paidAt |-> Undefined, dueDate |-> <<2024, 3, 31>>],
                   [status |-> "PAID", paidAt |-> <<2024, 3, 30>>,
                    dueDate |-> <<2024, 3, 20>>]}}

\* the records handed to updateExpense: expenses 5 and 6 are stored, 9 is not
UpdatedExpenses ==
    {ViewExpense(id, amount) : id \in {5, 6, 9}, amount \in {Num(40), Num(70)}}

\* a view calls onUpdateClient(updatedClient)
CallUpdateClient ==
    \E updatedClient \in UpdatedClients :
        /\ clients' = updateClient(clients, updatedClient)
        /\ lastCall' = [op |-> "updateClient", arg |-> updatedClient]
        /\ UNCHANGED <<loans, calculatedLoans, renderedDay, now, tz, nextId, expenses,
                       view, viewedAt, simulation, sessionVars>>

\* a view calls onUpdateLoan(updatedLoan)
CallUpdateLoan ==
    \E updatedLoan \in UpdatedLoans :
        /\ loans' = updateLoan(loans, updatedLoan)
        /\ lastCall' = [op |-> "updateLoan", arg |-> updatedLoan]
        /\ UNCHANGED <<clients, calculatedLoans, renderedDay, now, tz, nextId, expenses,
                       view, viewedAt, simulation, sessionVars>>

\* a view calls onUpdateExpense(updatedExpense)
CallUpdateExpense ==
    \E updatedExpense \in UpdatedExpenses :
        /\ expenses' = updateExpense(expenses, updatedExpense)
        /\ lastCall' = [op |-> "updateExpense", arg |-> updatedExpense]
        /\ UNCHANGED <<clients, loans, calculatedLoans, renderedDay, now, tz, nextId,
                       view, viewedAt, simulation, sessionVars>>

InitStore ==
    /\ clients = <<Client2, Client1>>
    /\ loans = <<ViewLoan(2, 2, <<Num(1000), Num(10)>>,
                          [status |-> "ACTIVE", paidAt |-> Undefined,
                           dueDate |-> <<2024, 3, 31>>]),
                 ViewLoan(1, 1, <<Num(1000), Num(10)>>,
                          [status |-> "ACTIVE", paidAt |-> Undefined,
                           dueDate |-> <<2024, 3, 20>>])>>
    /\ expenses = <<ViewExpense(6, Num(40)), ViewExpense(5, Num(125))>>
    /\ calculatedLoans = <<>>
    /\ renderedDay = 0
    /\ now = ClockStart
    /\ tz = 0
    /\ nextId = MaxIds
    /\ view = NoView
    /\ viewedAt = 0
    /\ lastCall = NoCall
    /\ simulation = NoSimulation
    /\ SessionOpen

NextStore == CallUpdateClient \/ CallUpdateLoan \/ CallUpdateExpense

SpecStore == InitStore /\ [][NextStore]_vars

-----------------------------------------------------------------------------
(* The new-loan form submitted as an installment plan of 1 to 12            *)
(* installments, on a store that holds few loans                            *)

MaxLoansBeforePlan == 1   \* a plan is submitted while the store holds at most this many loans

\* the new-loan forms: both interest types, a base date at the end of a month
\* and one in the middle of a month
PlanForms ==
    [clientId : {1},
     amount : {Num(1200), Num(1000)},
     interestRate : {Num(10)},
     interestType : {"PERCENTAGE", "FIXED_VALUE"},
     installments : 1..MaxInstallments,
     dueDate : {<<2024, 1, 31>>, <<2024, 3, 15>>},
     penaltyRate : FormPenaltyRates,
     penaltyType : FormPenaltyTypes,
     isPaid : {FALSE},
     paidAt : {EmptyStr},
     clientName : {""}, clientPhone : {""}, clientAddress : {""},
     clientProfession : {""}, clientCollateral : {""}]

\* Loans view, handleSubmit of the new-loan form, with the simulation the form
\* showed when it was submitted, and the render that follows
SubmitPlan ==
    \E formData \in PlanForms :
        /\ Len(loans) <= MaxLoansBeforePlan
        /\ RequiredFilled(formData, FALSE)
        /\ simulation' = getSimulation(formData)
        /\ lastCall' = [op |-> "handleSubmit", arg |-> formData]
        /\ loans' = handleSubmitNew(loans, formData, nextId)
        /\ nextId' = nextId + IdsDrawn(formData.installments)
        /\ calculatedLoans' = Rendered(loans', clients)
        /\ renderedDay' = LocalDay(now)
        /\ UNCHANGED <<clients, now, tz, expenses, view, viewedAt, sessionVars>>

InitPlan ==
    /\ clients = <<Client1>>
    /\ loans = <<>>
    /\ calculatedLoans = <<>>
    /\ renderedDay = 0
    /\ now = ClockStart
    /\ tz \in TZOffsets
    /\ nextId = 1
    /\ expenses = <<>>
    /\ view = NoView
    /\ viewedAt = 0
    /\ lastCall = NoCall
    /\ simulation = NoSimulation
    /\ SessionOpen

NextPlan == SubmitPlan

SpecPlan == InitPlan /\ [][NextPlan]_vars

-----------------------------------------------------------------------------
(* Properties of the calculation engine, checked under SpecCalc *)

Snapshots == {calculatedLoans[i] : i \in DOMAIN calculatedLoans}

DueDay(s) == DaysFromCivil(s.dueDate)

\* the evaluator's calendar day on which the payment was recorded
PaidLocalDay(s) ==
    IF Len(s.paidAt) = 3
    THEN DaysFromCivil(s.paidAt)
    ELSE (DaysFromCivil(<<s.paidAt[1], s.paidAt[2], s.paidAt[3]>>) * 24
          + s.paidAt[4] + tz) \div 24

LoanFields ==
    {"id", "clientId", "amount", "interestRate", "interestType", "dueDate",
     "penaltyRate", "penaltyType", "status", "createdAt", "paidAt",
     "installmentNumber", "installmentTotal", "groupId"}

\* the stored record a snapshot was computed from
LoanOf(s) == [f \in LoanFields |-> s[f]]

PaidWithDate(s) == s.status = "PAID" /\ s.paidAt # Undefined /\ s.paidAt # EmptyStr

\* C1: every snapshot has baseTotal = amount + initialInterest, finalTotal =
\* baseTotal + penaltyAmount and profit = finalTotal - amount, hence profit =
\* initialInterest + penaltyAmount.
InvC1 ==
    \A s \in Snapshots :
        /\ s.baseTotal = RAdd(s.amount, s.initialInterest)
        /\ s.finalTotal = RAdd(s.baseTotal, s.penaltyAmount)
        /\ s.profit = RSub(s.finalTotal, s.amount)
        /\ s.profit = RAdd(s.initialInterest, s.penaltyAmount)

WitC1 ==
    \E s \in Snapshots :
        /\ RGt(s.initialInterest, Num(0)) /\ RGt(s.penaltyAmount, Num(0))
        /\ s.profit = RAdd(s.initialInterest, s.penaltyAmount)

\* C2: a PERCENTAGE loan has initialInterest = amount * interestRate / 100, a
\* FIXED_VALUE loan has initialInterest = interestRate whatever its amount.
InvC2 ==
    \A s \in Snapshots :
        /\ s.interestType = "PERCENTAGE" =>
               RMul(s.initialInterest, Num(100)) = RMul(s.amount, s.interestRate)
        /\ s.interestType = "FIXED_VALUE" => s.initialInterest = s.interestRate

WitC2 ==
    \E s \in Snapshots :
        /\ s.interestType = "FIXED_VALUE" /\ s.amount = Num(2500)
        /\ s.interestRate = Num(200) /\ s.initialInterest = Num(200)

\* C3: a PAID loan with paidAt is overdue exactly when the calendar day of
\* paidAt is after the due day, and is then overdue by the number of days
\* between the two.
InvC3 ==
    \A s \in Snapshots :
        PaidWithDate(s) =>
            /\ s.isOverdue <=> PaidLocalDay(s) > DueDay(s)
            /\ s.isOverdue => s.daysOverdue = PaidLocalDay(s) - DueDay(s)

WitC3 ==
    \E s \in Snapshots :
        /\ PaidWithDate(s) /\ PaidLocalDay(s) = DueDay(s) + 1
        /\ s.isOverdue /\ s.daysOverdue = 1

\* C4: the isOverdue and daysOverdue of a PAID loan with paidAt are the same
\* at every evaluation date: the snapshot of an earlier render agrees with an
\* evaluation now.
InvC4 ==
    \A i \in DOMAIN calculatedLoans \cap DOMAIN loans :
        (PaidWithDate(loans[i]) /\ LoanOf(calculatedLoans[i]) = loans[i]) =>
            LET again == calculateLoanDetails(loans[i], clients)
            IN  /\ again.isOverdue = calculatedLoans[i].isOverdue
                /\ again.daysOverdue = calculatedLoans[i].daysOverdue

WitC4 ==
    \E s \in Snapshots :
        /\ PaidWithDate(s) /\ s.isOverdue /\ s.daysOverdue >= 1
        /\ renderedDay > PaidLocalDay(s)
        /\ LocalDay(now) > renderedDay

\* C5: a loan that is not PAID is overdue exactly when today is after its due
\* date; an ACTIVE loan due today or later has isOverdue = FALSE, daysOverdue
\* = 0 and penaltyAmount = 0.
InvC5 ==
    \A s \in Snapshots :
        /\ s.status # "PAID" => (s.isOverdue <=> renderedDay > DueDay(s))
        /\ (s.status = "ACTIVE" /\ DueDay(s) >= renderedDay) =>
               ~s.isOverdue /\ s.daysOverdue = 0 /\ s.penaltyAmount = Num(0)

WitC5 ==
    \E s \in Snapshots :
        /\ s.status = "ACTIVE" /\ DueDay(s) = renderedDay
        /\ ~s.isOverdue /\ s.daysOverdue = 0 /\ s.penaltyAmount = Num(0)

\* C6: for a loan overdue by d > 0 days, DAILY_PERCENTAGE gives penaltyAmount
\* = (baseTotal * penaltyRate / 100) * d on the unpenalized base total, and
\* DAILY_VALUE gives penaltyAmount = penaltyRate * d.
InvC6 ==
    \A s \in Snapshots :
        (s.isOverdue /\ s.daysOverdue > 0) =>
            /\ s.penaltyType = "DAILY_PERCENTAGE" =>
                   RMul(s.penaltyAmount, Num(100)) =
                   RMul(RMul(RAdd(s.amount, s.initialInterest), s.penaltyRate),
                        Num(s.daysOverdue))
            /\ s.penaltyType = "DAILY_VALUE" =>
                   s.penaltyAmount = RMul(s.penaltyRate, Num(s.daysOverdue))

WitC6 ==
    \E s \in Snapshots :
        /\ s.isOverdue /\ s.daysOverdue >= 2
        /\ s.penaltyType = "DAILY_PERCENTAGE"
        /\ RGt(s.penaltyAmount, Num(0))

\* C7: for an overdue loan, FIXED_VALUE gives penaltyAmount = penaltyRate, and
\* FIXED or any unrecognised penalty type gives penaltyAmount = baseTotal *
\* penaltyRate / 100, whatever the number of days late.
InvC7 ==
    \A s \in Snapshots :
        s.isOverdue =>
            /\ s.penaltyType = "FIXED_VALUE" => s.penaltyAmount = s.penaltyRate
            /\ s.penaltyType \notin {"FIXED_VALUE", "DAILY_PERCENTAGE", "DAILY_VALUE"} =>
                   RMul(s.penaltyAmount, Num(100)) =
                   RMul(RAdd(s.amount, s.initialInterest), s.penaltyRate)

WitC7 ==
    \E s \in Snapshots :
        /\ s.isOverdue /\ s.daysOverdue >= 2
        /\ s.penaltyType = "FIXED_VALUE" /\ s.penaltyAmount = s.penaltyRate

\* C8: an unpaid loan due 2024-03-01 evaluated on the local calendar date
\* 2024-03-02 has daysOverdue = 1, in every time zone and at every time of day.
InvC8 ==
    \A s \in Snapshots :
        (s.status # "PAID" /\ s.dueDate = <<2024, 3, 1>>
         /\ renderedDay = DaysFromCivil(<<2024, 3, 2>>)) =>
            s.daysOverdue = 1

WitC8 ==
    \E s \in Snapshots :
        /\ s.status = "ACTIVE" /\ s.dueDate = <<2024, 3, 1>>
        /\ renderedDay = DaysFromCivil(<<2024, 3, 2>>)
        /\ LocalDay(now) = renderedDay
        /\ now \div 24 # renderedDay
        /\ s.daysOverdue = 1

-----------------------------------------------------------------------------
(* Properties of the stored loans, checked under Spec *)

StoredIds(ls) == {ls[i].id : i \in DOMAIN ls}

\* paidAt is present exactly when the status is PAID
PaidAtIffPaid(l) ==
    IF l.status = "PAID"
    THEN l.paidAt # Undefined /\ l.paidAt # EmptyStr
    ELSE l.paidAt = Undefined

\* C9: after every loan creation, loan edit and status update, every stored
\* loan has paidAt present if and only if its status is PAID; a loan that has
\* just been created is ACTIVE without paidAt, or PAID with the payment date
\* entered in the form.
PropC9 ==
    [][/\ \A i \in DOMAIN loans' : PaidAtIffPaid(loans'[i])
       /\ \A i \in DOMAIN loans' :
             loans'[i].id \notin StoredIds(loans) =>
                \/ loans'[i].status = "ACTIVE" /\ loans'[i].paidAt = Undefined
                \/ loans'[i].status = "PAID" /\ loans'[i].paidAt \in FormPaidDates]_vars

WitC9 ==
    \E i, j \in DOMAIN loans :
        /\ loans[i].status = "PAID" /\ Len(loans[i].paidAt) = 4
        /\ loans[j].status = "ACTIVE" /\ loans[j].paidAt = Undefined
        /\ loans[j].createdAt = toISOString(now)

\* C10: the stored status of every loan is ACTIVE or PAID; OVERDUE is never
\* stored, an overdue loan is a stored ACTIVE loan whose snapshot has isOverdue.
InvC10 ==
    \A i \in DOMAIN loans : loans[i].status \in {"ACTIVE", "PAID"}

WitC10 ==
    \E i \in DOMAIN loans \cap DOMAIN calculatedLoans :
        /\ loans[i].status = "ACTIVE"
        /\ LoanOf(calculatedLoans[i]) = loans[i]
        /\ calculatedLoans[i].isOverdue

\* C11: updateLoan and updateLoanStatus applied to a loan id leave every other
\* stored loan unchanged in every field, the loans of the same groupId
\* included: a step that edits or pays a loan changes at most one stored loan,
\* which keeps its id.
PropC11 ==
    [][Len(loans') = Len(loans) =>
          /\ \A i \in DOMAIN loans : loans'[i].id = loans[i].id
          /\ \A i, j \in DOMAIN loans :
                (i # j /\ loans'[i] # loans[i]) => loans'[j] = loans[j]]_vars

WitC11 ==
    \E i, j \in DOMAIN loans :
        /\ i # j /\ loans[i].groupId # 0 /\ loans[i].groupId = loans[j].groupId
        /\ loans[i].status = "PAID" /\ Len(loans[i].paidAt) = 4
        /\ loans[j].status = "ACTIVE" /\ loans[j].paidAt = Undefined

FinancialFields ==
    {"initialInterest", "baseTotal", "daysOverdue", "penaltyAmount", "finalTotal",
     "profit", "isOverdue"}

\* C13: every render yields one complete snapshot per stored loan; the
\* snapshot of a loan whose clientId matches no client has the fallback
\* clientName and the financial fields it would have if the client existed.
PropC13 ==
    [][calculatedLoans' # calculatedLoans =>
          /\ Len(calculatedLoans') = Len(loans')
          /\ \A i \in DOMAIN calculatedLoans' :
                LET s == calculatedLoans'[i]
                    t == calculateLoanDetails(loans'[i],
                                              <<[Client1 EXCEPT !.id = loans'[i].clientId]>>)
                IN  /\ LoanOf(s) = loans'[i]
                    /\ DOMAIN s = DOMAIN t
                    /\ FindClient(clients', s.clientId) = <<>> =>
                          /\ s.clientName = "Cliente Desconhecido"
                          /\ \A f \in FinancialFields : s[f] = t[f]]_vars

WitC13 ==
    \E i, j \in DOMAIN calculatedLoans :
        /\ Len(calculatedLoans) = Len(loans)
        /\ FindClient(clients, loans[i].clientId) = <<>>
        /\ calculatedLoans[i].clientName = "Cliente Desconhecido"
        /\ FindClient(clients, loans[j].clientId) # <<>>
        /\ calculatedLoans[j].clientName \in ClientNames

\* C24: when updateLoanStatus(id, PAID) is applied to an ACTIVE loan, the
\* snapshot rendered right after the transition has the same isOverdue,
\* daysOverdue, penaltyAmount and finalTotal as the evaluation of the loan on
\* the same day right before it, in every time zone and at every hour.
PropC24 ==
    [][\A i \in DOMAIN loans :
          ( /\ Len(loans') = Len(loans)
            /\ loans[i].status = "ACTIVE"
            /\ loans'[i].status = "PAID"
            /\ loans'[i].paidAt = toISOString(now) )
          => /\ Len(calculatedLoans') = Len(loans)
             /\ calculatedLoans'[i].id = loans[i].id
             /\ calculatedLoans'[i].status = "PAID"
             /\ calculatedLoans'[i].isOverdue =
                   calculateLoanDetails(loans[i], clients).isOverdue
             /\ calculatedLoans'[i].daysOverdue =
                   calculateLoanDetails(loans[i], clients).daysOverdue
             /\ calculatedLoans'[i].penaltyAmount =
                   calculateLoanDetails(loans[i], clients).penaltyAmount
             /\ calculatedLoans'[i].finalTotal =
                   calculateLoanDetails(loans[i], clients).finalTotal]_vars

WitC24 ==
    \E i \in DOMAIN calculatedLoans :
        /\ i \in DOMAIN loans /\ calculatedLoans[i].id = loans[i].id
        /\ loans[i].status = "PAID" /\ loans[i].paidAt = toISOString(now)
        /\ calculatedLoans[i].status = "PAID" /\ calculatedLoans[i].isOverdue
        /\ RGt(calculatedLoans[i].penaltyAmount, Num(0))
        /\ format(now)[3] # loans[i].paidAt[3]

\* C30: a step that changes a stored loan without adding or removing records
\* (the edit form's submit among them) keeps the loan's id, clientId,
\* createdAt, installmentNumber, installmentTotal and groupId; the client it
\* changes is the client of the changed loan and keeps its id, cpf, photo and
\* createdAt; when the loan's client is not stored, the clients are unchanged.
PropC30 ==
    [][(Len(loans') = Len(loans) /\ Len(clients') = Len(clients)) =>
          /\ \A i \in DOMAIN loans :
                /\ loans'[i].id = loans[i].id
                /\ loans'[i].clientId = loans[i].clientId
                /\ loans'[i].createdAt = loans[i].createdAt
                /\ loans'[i].installmentNumber = loans[i].installmentNumber
                /\ loans'[i].installmentTotal = loans[i].installmentTotal
                /\ loans'[i].groupId = loans[i].groupId
          /\ \A k \in DOMAIN clients :
                /\ clients'[k].id = clients[k].id
                /\ clients'[k].cpf = clients[k].cpf
                /\ clients'[k].photo = clients[k].photo
                /\ clients'[k].createdAt = clients[k].createdAt
                /\ clients'[k] # clients[k] =>
                      \E i \in DOMAIN loans : loans[i].clientId = clients[k].id
          /\ \A i \in DOMAIN loans :
                (loans'[i] # loans[i] /\ FindClient(clients, loans[i].clientId) = <<>>)
                    => clients' = clients]_vars

\* an installment of a plan carries the full amount of the edit form
WitC30 ==
    \E i \in DOMAIN loans :
        /\ loans[i].groupId # 0 /\ loans[i].installmentTotal = 2
        /\ loans[i].amount = Num(1200)
        /\ FindClient(clients, loans[i].clientId) # <<>>

-----------------------------------------------------------------------------
(* Scenarios of the calculation engine, checked under SpecCalc *)

\* C20: scenario A, the loan of 1000 at 10 percent due 2024-01-10 with a FIXED
\* penalty of 5 percent, PAID on 2024-01-15, has initialInterest 100, baseTotal
\* 1100, isOverdue, daysOverdue 5, penaltyAmount 55, finalTotal 1155 and profit
\* 155 at every evaluation date.
InvC20 ==
    \A s \in Snapshots :
        LoanOf(s) = ScenarioA =>
            /\ s.initialInterest = Num(100) /\ s.baseTotal = Num(1100)
            /\ s.isOverdue /\ s.daysOverdue = 5
            /\ s.penaltyAmount = Num(55) /\ s.finalTotal = Num(1155)
            /\ s.profit = Num(155)

WitC20 ==
    \E s \in Snapshots :
        /\ LoanOf(s) = ScenarioA /\ s.profit = Num(155)
        /\ LocalDay(now) > renderedDay

\* C21: there is no transition out of overdue: when a loan is evaluated again
\* with status ACTIVE and the same dueDate, a snapshot that was overdue is
\* still overdue on the later date and its daysOverdue has not decreased.
PropC21 ==
    [][\A i \in DOMAIN calculatedLoans : \A j \in DOMAIN calculatedLoans' :
          ( /\ calculatedLoans'[j].id = calculatedLoans[i].id
            /\ calculatedLoans'[j].dueDate = calculatedLoans[i].dueDate
            /\ calculatedLoans[i].status = "ACTIVE"
            /\ calculatedLoans'[j].status = "ACTIVE"
            /\ calculatedLoans[i].isOverdue )
          => /\ calculatedLoans'[j].isOverdue
             /\ calculatedLoans'[j].daysOverdue >= calculatedLoans[i].daysOverdue]_vars

WitC21 ==
    \E s \in Snapshots :
        /\ s.status = "ACTIVE" /\ s.isOverdue /\ s.daysOverdue >= 2
        /\ renderedDay = LocalDay(now)
        /\ renderedDay > DueDay(s) + 1

\* C25: in every snapshot isOverdue is true exactly when daysOverdue is at
\* least 1, and a nonzero penaltyAmount implies isOverdue; so an overdue loan
\* with a positive penalty rate always carries a penalty.
InvC25 ==
    \A s \in Snapshots :
        /\ s.isOverdue <=> s.daysOverdue >= 1
        /\ s.penaltyAmount # Num(0) => s.isOverdue
        /\ (s.isOverdue /\ RGt(s.penaltyRate, Num(0)) /\ RGt(s.baseTotal, Num(0)))
              => RGt(s.penaltyAmount, Num(0))

WitC25 ==
    \E s \in Snapshots :
        /\ s.isOverdue /\ s.daysOverdue = 1 /\ RGt(s.penaltyAmount, Num(0))
        /\ tz = 14

-----------------------------------------------------------------------------
(* Properties of the summary views, checked under SpecViews *)

\* the key of the month k months before the month of instant t
MonthKeyBefore(t, k) ==
    LET ym == format(t)[1] * 12 + format(t)[2] - 1 - k
    IN  <<(ym % 12) + 1, (ym \div 12) % 100>>

\* the profit of the stored PAID loans whose payment falls in the month of key
PaidInMonth(key) ==
    SumOf(SelectSeq(Rendered(loans, clients),
                    LAMBDA l : l.status = "PAID" /\ Truthy(l.paidAt)
                               /\ formatMonthKey(parseISO(l.paidAt)) = key),
          "profit")

\* C14: on every current date the monthly series of the Profits view has
\* exactly 6 buckets, the trailing 6 calendar months up to the current one in
\* chronological order, each holding the profit of the loans paid in its month
\* (0 when there is none).
CexC14 ==
    view.tab = "profits" =>
        /\ Len(view.chartData) = 6
        /\ \A i \in 1..6 :
              /\ view.chartData[i].key = MonthKeyBefore(viewedAt, 6 - i)
              /\ view.chartData[i].value = PaidInMonth(view.chartData[i].key)

\* the profit of the stored PAID loans whose payment instant lies in [from, to]
PaidBetween(from, to) ==
    SumOf(SelectSeq(Rendered(loans, clients),
                    LAMBDA l : l.status = "PAID" /\ Truthy(l.paidAt)
                               /\ parseISO(l.paidAt) >= from /\ parseISO(l.paidAt) <= to),
          "profit")

\* C15: the month-to-date profit is the profit of exactly the paid loans with
\* paidAt in [start of the current month, now], the trailing-30-day profit that
\* of exactly those with paidAt in [now - 30 days, now]; a loan paid after now
\* is in neither.
CexC15 ==
    view.tab = "profits" =>
        /\ view.monthProfit = PaidBetween(startOfMonth(viewedAt), viewedAt)
        /\ view.last30DaysProfit = PaidBetween(viewedAt - DaysBack * HoursPerDay, viewedAt)

\* the mounted view was rendered from the store at the present clock value
FreshView(tab) == view.tab = tab /\ viewedAt = now

ProfitsForecasts ==
    {"forecastInterestDay", "forecastInterestWeek", "forecastInterestMonth",
     "forecastInterestYear"}
ProfitsRealized ==
    {"grossProfit", "netProfit", "monthProfit", "last30DaysProfit", "chartData",
     "profitByClient"}
DashboardForecasts == {"forecastDay", "forecastWeek", "forecastMonth", "forecastYear"}
DashboardRealized == {"grossRealizedProfit", "netRealizedProfit", "totalPenaltiesCollected"}

\* the stored loans without those of the given status, and without loan i
Without(status) == SelectSeq(loans, LAMBDA l : l.status # status)
WithoutLoan(i) == SubSeq(loans, 1, i - 1) \o SubSeq(loans, i + 1, Len(loans))

\* C16: a PAID loan contributes to no forecast sum and an ACTIVE loan to no
\* realized-profit sum: every forecast of both views is what it would be
\* without the PAID loans, every realized figure what it would be without the
\* ACTIVE loans.
InvC16 ==
    /\ FreshView("profits") =>
          /\ \A f \in ProfitsForecasts :
                view[f] = Profits(clients, Without("PAID"), expenses)[f]
          /\ \A f \in ProfitsRealized :
                view[f] = Profits(clients, Without("ACTIVE"), expenses)[f]
    /\ FreshView("dashboard") =>
          /\ \A f \in DashboardForecasts :
                view[f] = Dashboard(clients, Without("PAID"), expenses)[f]
          /\ \A f \in DashboardRealized :
                view[f] = Dashboard(clients, Without("ACTIVE"), expenses)[f]

WitC16 ==
    /\ FreshView("dashboard")
    /\ \E i, j \in DOMAIN loans :
          /\ loans[i].status = "PAID" /\ isSameMonth(parseISO(loans[i].dueDate), now)
          /\ loans[j].status = "ACTIVE" /\ isSameMonth(parseISO(loans[j].dueDate), now)
    /\ RGt(view.forecastMonth, Num(0)) /\ RGt(view.grossRealizedProfit, Num(0))

\* C17: an ACTIVE loan due today adds its initialInterest to the 'today'
\* bucket of the interest forecast and its finalTotal to the 'today' bucket of
\* the receivable forecast, and adds nothing to any realized-profit sum.
InvC17 ==
    \A i \in DOMAIN loans :
        (loans[i].status = "ACTIVE" /\ loans[i].dueDate = format(now)) =>
            LET c == calculateLoanDetails(loans[i], clients)
            IN  /\ FreshView("profits") =>
                      LET rest == Profits(clients, WithoutLoan(i), expenses)
                      IN  /\ view.forecastInterestDay =
                                 RAdd(rest.forecastInterestDay, c.initialInterest)
                          /\ \A f \in ProfitsRealized : view[f] = rest[f]
                /\ FreshView("dashboard") =>
                      LET rest == Dashboard(clients, WithoutLoan(i), expenses)
                      IN  /\ view.forecastDay = RAdd(rest.forecastDay, c.finalTotal)
                          /\ \A f \in DashboardRealized : view[f] = rest[f]

WitC17 ==
    /\ FreshView("profits")
    /\ \E i \in DOMAIN loans :
          /\ loans[i].status = "ACTIVE" /\ loans[i].dueDate = format(now)
          /\ RGt(loans[i].interestRate, Num(0))
    /\ RGt(view.forecastInterestDay, Num(0))
    /\ LocalDay(now) # now \div HoursPerDay

\* the stored PAID loans of a client id, and the sum of their profit
PaidProfitOf(clientId) ==
    SumOf(SelectSeq(Rendered(loans, clients),
                    LAMBDA l : l.status = "PAID" /\ Truthy(l.paidAt)
                               /\ l.clientId = clientId),
          "profit")

PaidClientIds == {loans[i].clientId : i \in {j \in DOMAIN loans : loans[j].status = "PAID"}}

\* C18: the per-client profit list has one entry for each clientId whose paid
\* loans have a strictly positive profit sum, with that sum as its total, no
\* entry for a clientId with a zero or negative sum, and is sorted by total in
\* descending order.
CexC18 ==
    view.tab = "profits" =>
        LET list == view.profitByClient
        IN  /\ \A id \in PaidClientIds :
                  RGt(PaidProfitOf(id), Num(0)) =>
                      \E i \in DOMAIN list :
                          /\ list[i].id = id /\ list[i].totalProfit = PaidProfitOf(id)
                          /\ \A j \in DOMAIN list : list[j].id = id => j = i
            /\ \A i \in DOMAIN list :
                  /\ RGt(list[i].totalProfit, Num(0))
                  /\ list[i].totalProfit = PaidProfitOf(list[i].id)
            /\ \A i, j \in DOMAIN list :
                  i < j => ~RGt(list[j].totalProfit, list[i].totalProfit)

\* the profit of the stored loans with status PAID, and the stored expenses
RealizedGross ==
    SumOf(SelectSeq(Rendered(loans, clients), LAMBDA l : l.status = "PAID"), "profit")
ExpensesTotal == SumOf(expenses, "amount")

Counted(i, period) ==
    /\ loans[i].status = "ACTIVE"
    /\ filterFn(period, parseISO(loans[i].dueDate), startOfDay(now))

\* the stored loans the forecasts count in the bucket of the period
CountedLoans(period) ==
    Rendered(SelectSeq(loans, LAMBDA l : l.status = "ACTIVE"
                 /\ filterFn(period, parseISO(l.dueDate), startOfDay(now))), clients)

\* C26: the forecast buckets are nested: an ACTIVE loan counted in the 'today'
\* bucket is counted in the week, month and year buckets, and a loan counted in
\* the month bucket is counted in the year bucket; the forecasts of both views
\* are the sums over these loans.
InvC26 ==
    /\ \A i \in DOMAIN loans :
          /\ Counted(i, "day") =>
                Counted(i, "week") /\ Counted(i, "month") /\ Counted(i, "year")
          /\ Counted(i, "month") => Counted(i, "year")
    /\ FreshView("dashboard") =>
          /\ view.forecastDay = SumOf(CountedLoans("day"), "finalTotal")
          /\ view.forecastWeek = SumOf(CountedLoans("week"), "finalTotal")
          /\ view.forecastMonth = SumOf(CountedLoans("month"), "finalTotal")
          /\ view.forecastYear = SumOf(CountedLoans("year"), "finalTotal")
          /\ ~RGt(view.forecastDay, view.forecastWeek)
          /\ ~RGt(view.forecastDay, view.forecastMonth)
          /\ ~RGt(view.forecastMonth, view.forecastYear)
    /\ FreshView("profits") =>
          /\ view.forecastInterestDay = SumOf(CountedLoans("day"), "initialInterest")
          /\ view.forecastInterestWeek = SumOf(CountedLoans("week"), "initialInterest")
          /\ view.forecastInterestMonth = SumOf(CountedLoans("month"), "initialInterest")
          /\ view.forecastInterestYear = SumOf(CountedLoans("year"), "initialInterest")
          /\ ~RGt(view.forecastInterestDay, view.forecastInterestWeek)
          /\ ~RGt(view.forecastInterestDay, view.forecastInterestMonth)
          /\ ~RGt(view.forecastInterestMonth, view.forecastInterestYear)

WitC26 ==
    /\ FreshView("profits")
    /\ \E i, j \in DOMAIN loans :
          /\ Counted(i, "day")
          /\ Counted(j, "month") /\ ~Counted(j, "week")
    /\ RGt(view.forecastInterestDay, Num(0))
    /\ RGt(view.forecastInterestMonth, view.forecastInterestDay)

\* whether the snapshot of stored loan i is in the given list of snapshots
Listed(i, list) == \E k \in DOMAIN list : list[k].id = loans[i].id

\* C28: on the Dashboard every ACTIVE loan is in exactly one of the lists
\* 'upcoming' (ACTIVE and not overdue) and 'overdue' (overdue and not PAID), no
\* PAID loan is in either, and totalOverdue sums a subset of the loans that
\* totalReceivable sums: the ACTIVE loans of the 'overdue' list.
InvC28 ==
    FreshView("dashboard") =>
        /\ \A i \in DOMAIN loans :
              /\ loans[i].status = "ACTIVE" =>
                    (Listed(i, upcomingLoans(Rendered(loans, clients)))
                        # Listed(i, overdueNotPaid(Rendered(loans, clients))))
              /\ loans[i].status = "PAID" =>
                    /\ ~Listed(i, upcomingLoans(Rendered(loans, clients)))
                    /\ ~Listed(i, overdueNotPaid(Rendered(loans, clients)))
        /\ view.totalReceivable =
              SumOf(SelectSeq(Rendered(loans, clients),
                              LAMBDA l : l.status = "ACTIVE"), "finalTotal")
        /\ view.totalOverdue =
              SumOf(SelectSeq(overdueNotPaid(Rendered(loans, clients)),
                              LAMBDA l : l.status = "ACTIVE"), "finalTotal")
        /\ ~RGt(view.totalOverdue, view.totalReceivable)

WitC28 ==
    /\ FreshView("dashboard")
    /\ \E j, k \in DOMAIN loans :
          /\ loans[j].status = "ACTIVE"
          /\ ~Listed(j, upcomingLoans(Rendered(loans, clients)))
          /\ Listed(j, overdueNotPaid(Rendered(loans, clients)))
          /\ loans[k].status = "PAID"
          /\ calculateLoanDetails(loans[k], clients).isOverdue
    /\ RGt(view.totalOverdue, Num(0))

-----------------------------------------------------------------------------
(* Properties of the session, checked under SpecAuth *)

\* C27: once the session check has finished, isAuthenticated is true exactly
\* when the session storage holds an 'agt_user' entry, after any sequence of
\* login attempts, logouts and reloads; and a data view (dashboard, clients,
\* loans, profits, expenses) is on screen only while isAuthenticated is true.
InvC27 ==
    /\ ~isAuthChecking => (isAuthenticated <=> sessionStorage # Null)
    /\ screen \in DataViews => isAuthenticated /\ ~isAuthChecking
    /\ isAuthenticated => currentUser = sessionStorage

WitC27 ==
    /\ ~isAuthChecking /\ isAuthenticated
    /\ sessionStorage = <<"A", "r", "t", "h", "u", "r">>
    /\ screen = "loans"

-----------------------------------------------------------------------------
(* Properties of the update handlers, checked under SpecStore *)

\* whether collection after is collection before with the records of the
\* id of record arg replaced by arg, and nothing else changed
ReplacedById(before, after, arg) ==
    /\ Len(after) = Len(before)
    /\ \A i \in DOMAIN before :
          /\ after[i].id = before[i].id
          /\ before[i].id = arg.id => after[i] = arg
          /\ before[i].id # arg.id => after[i] = before[i]
    /\ (\A i \in DOMAIN before : before[i].id # arg.id) => after = before

\* C23: an update of a client, a loan or an expense replaces the record of the
\* given record's id by the given record, leaves every other record as it
\* was, keeps the length and the order of the collection and leaves the other
\* collections alone; when no stored record has that id the collection is
\* unchanged.
PropC23 ==
    [][/\ lastCall'.op = "updateClient" =>
             /\ ReplacedById(clients, clients', lastCall'.arg)
             /\ loans' = loans /\ expenses' = expenses
       /\ lastCall'.op = "updateLoan" =>
             /\ ReplacedById(loans, loans', lastCall'.arg)
             /\ clients' = clients /\ expenses' = expenses
       /\ lastCall'.op = "updateExpense" =>
             /\ ReplacedById(expenses, expenses', lastCall'.arg)
             /\ clients' = clients /\ loans' = loans]_vars

\* a stored expense has been replaced, and the last update named an id that
\* is not stored
WitC23 ==
    /\ lastCall.op = "updateExpense" /\ lastCall.arg.id = 9
    /\ Len(expenses) = 2
    /\ expenses[1] = ViewExpense(6, Num(40)) /\ expenses[2] = ViewExpense(5, Num(70))
    /\ clients[1].name = "Ana" /\ loans[2].status = "PAID"

-----------------------------------------------------------------------------
(* Properties of the installment plan, checked under SpecPlan *)

\* the calendar date n months after date ymd, on the last day of the month
\* when the month is shorter
PlusMonths(ymd, n) ==
    LET y == (ymd[1] * 12 + ymd[2] - 1 + n) \div 12
        m == ((ymd[1] * 12 + ymd[2] - 1 + n) % 12) + 1
    IN  <<y, m, IF ymd[3] > DaysInMonth(y, m) THEN DaysInMonth(y, m) ELSE ymd[3]>>

\* C22: submitting a new-loan form with N installments adds exactly N loan
\* records in front of the stored ones; installment i (0 .. N-1) has amount
\* total / N, dueDate the base date plus i months, installmentNumber i + 1 and
\* installmentTotal N, and the N records share one groupId.
PropC22 ==
    [][lastCall'.op = "handleSubmit" =>
          /\ Len(loans') = Len(loans) + lastCall'.arg.installments
          /\ SubSeq(loans', lastCall'.arg.installments + 1, Len(loans')) = loans
          /\ \A i \in 0..(lastCall'.arg.installments - 1) :
                /\ loans'[lastCall'.arg.installments - i].amount =
                      RDiv(lastCall'.arg.amount, Num(lastCall'.arg.installments))
                /\ loans'[lastCall'.arg.installments - i].dueDate =
                      PlusMonths(lastCall'.arg.dueDate, i)
                /\ loans'[lastCall'.arg.installments - i].installmentNumber = i + 1
                /\ loans'[lastCall'.arg.installments - i].installmentTotal =
                      lastCall'.arg.installments
                /\ loans'[lastCall'.arg.installments - i].groupId = loans'[1].groupId
                /\ \A j \in DOMAIN loans :
                      /\ loans[j].id # loans'[lastCall'.arg.installments - i].id
                      /\ lastCall'.arg.installments > 1 =>
                            loans[j].groupId # loans'[1].groupId]_vars

WitC22 ==
    /\ lastCall.op = "handleSubmit" /\ lastCall.arg.installments = 12
    /\ lastCall.arg.dueDate = <<2024, 1, 31>>
    /\ tz = -3
    /\ Len(loans) = 13
    /\ loans[11].dueDate = <<2024, 2, 29>> /\ loans[1].dueDate = <<2024, 12, 31>>
    /\ loans[1].amount = Num(100) /\ loans[1].groupId # 0

====
